---- MODULE Spec2Model ----
(***************************************************************************)
(* The Direct3D 11 render device of the ouzel engine: the command queue    *)
(* between the producer role and the render thread, the render thread's    *)
(* loop (renderMain / process), the destructor's shutdown protocol and     *)
(* the resource table that the commands of a buffer are replayed against.  *)
(*                                                                         *)
(* Source: src/engine/graphics/direct3d11/D3D11RenderDevice.cpp.           *)
(* submitCommandBuffer and getResource are declared in headers that are    *)
(* not part of the sources at hand; they are modelled from the design      *)
(* document (sections 4.1 and 4.2) and marked so in MODEL_MAP.json.        *)
(*                                                                         *)
(* Variables whose comment says "history" are not state of the program:    *)
(* they record what the program did so that properties over its past can   *)
(* be stated.  No action reads them in a guard.                            *)
(***************************************************************************)
EXTENDS Naturals, Integers, Sequences, FiniteSets, TLC

\* Bounds of the model.
MaxCommands == 3     \* commands the producers submit, over all their buffers

Producers == {"p1", "p2"}
Handles == {1, 2}

VARIABLES
    running,          \* RenderDevice::running
    commandQueue,     \* RenderDevice::commandQueue, front first
    pcR,              \* position of the render thread
    commandBuffer,    \* process(): local commandBuffer, front first
    resources,        \* RenderDevice::resources (slot handle-1 is resources[handle])
    session,          \* process(): fillModeIndex .. currentShader
    frameBufferSize,  \* frameBufferWidth x frameBufferHeight, as one value
    pcD,              \* position of the thread that destroys the device
    live,             \* producer side: handles initialised and not deleted, in program order
    programOK,        \* producer side: every reference so far was to a live handle
    issued,           \* producer side: commands submitted so far
    pushCount,        \* history: number of buffers pushed so far
    cur,              \* history: identity of the buffer being drained, position in it
    taken,            \* history: ids of the buffers popped, in pop order
    execLog,          \* history: one entry per command whose execution began
    errorLog,         \* what renderMain wrote to the engine's log
    drawCalls,        \* number of DrawIndexed calls made on the device context
    contextCalls,     \* history: the calls made on the device context and the swap chain
    accesses,         \* history: which role read or wrote which member, under the queue's mutex or not
    renderer,         \* Renderer: activeDrawQueue, updateSet, the resources' dirty flags, the last call
    device,           \* RenderDevice: depth .. depthStencilView, samplerStates, and the context's bound targets
    engine            \* Engine: executeMutex, executeQueue, the main thread's position in executeAll

vars == <<running, commandQueue, pcR, commandBuffer, resources, session,
          frameBufferSize, pcD, live, programOK, issued, pushCount, cur, taken,
          execLog, errorLog, drawCalls, contextCalls, accesses, renderer, device, engine>>

----------------------------------------------------------------------------
\* Engine after its constructor: nobody holds executeMutex, executeQueue is
\* empty and the main thread is not in executeAll.  enqueued, took and ran
\* are the history of the functions queued, taken from the queue and called;
\* returns is the history of the ways executeAll was left.
NewEngine ==
    [executeMutex |-> "none", executeQueue |-> <<>>, pc |-> "idle", func |-> "",
     enqueued |-> <<>>, took |-> <<>>, ran |-> <<>>, returns |-> <<>>]

----------------------------------------------------------------------------
\* Commands.  Every variant is a record of the same shape; a field a variant
\* does not carry is 0.

Command(t, a, b, c) ==
    [type |-> t, h |-> a, h2 |-> b, v |-> c,
     cullMode |-> "", fillMode |-> "", indexCount |-> 0, startIndex |-> 0,
     fragmentShaderConstants |-> <<>>, vertexShaderConstants |-> <<>>,
     clearColorBuffer |-> FALSE, clearDepthBuffer |-> FALSE,
     clearStencilBuffer |-> FALSE]

PresentCommand == Command("present", 0, 0, 0)
DeleteResourceCommand(resource) == Command("deleteResource", resource, 0, 0)
InitBufferCommand(buffer) == Command("initBuffer", buffer, 0, 0)
SetBufferDataCommand(buffer) == Command("setBufferData", buffer, 0, 0)
DrawCommand(indexBuffer, vertexBuffer, indexCount, indexSize, startIndex) ==
    [Command("draw", indexBuffer, vertexBuffer, indexSize) EXCEPT
        !.indexCount = indexCount, !.startIndex = startIndex]
ClearRenderTargetCommand(clearColorBuffer, clearDepthBuffer, clearStencilBuffer) ==
    [Command("clearRenderTarget", 0, 0, 0) EXCEPT
        !.clearColorBuffer = clearColorBuffer,
        !.clearDepthBuffer = clearDepthBuffer,
        !.clearStencilBuffer = clearStencilBuffer]
SetRenderTargetCommand(renderTarget) == Command("setRenderTarget", renderTarget, 0, 0)
SetPipelineStateCommand(blendState, shader, cullMode, fillMode) ==
    [Command("setPipelineState", shader, blendState, 0) EXCEPT
        !.cullMode = cullMode, !.fillMode = fillMode]
\* The constants are given by their sizes in bytes, sizeof(float) * size().
SetShaderConstantsCommand(fragmentShaderConstants, vertexShaderConstants) ==
    [Command("setShaderConstants", 0, 0, 0) EXCEPT
        !.fragmentShaderConstants = fragmentShaderConstants,
        !.vertexShaderConstants = vertexShaderConstants]
SetScissorTestCommand(enabled) == Command("setScissorTest", 0, 0, enabled)
ResizeCommand(size) == Command("resize", 0, 0, size)
\* A command whose tag is none of Command::Type's enumerators.
InvalidCommand == Command("invalid", 0, 0, 0)

\* The handles a command hands to getResource.
LooksUpIndexBufferOnly(c) ==
    CASE c.type = "draw" -> {c.h}
      [] c.type = "setBufferData" -> {c.h}
      [] c.type = "setRenderTarget" -> {c.h}
      [] c.type = "setPipelineState" -> {c.h, c.h2}
      [] OTHER -> {}

LooksUp(c) ==
    CASE c.type = "draw" -> {c.h, c.h2}
      [] c.type = "setBufferData" -> {c.h}
      [] c.type = "setRenderTarget" -> {c.h}
      [] c.type = "setPipelineState" -> {c.h, c.h2}
      [] OTHER -> {}

\* The handles a command refers to, by its fields.
Refers(c) ==
    CASE c.type = "deleteResource" -> {c.h}
      [] c.type = "setBufferData" -> {c.h}
      [] c.type = "draw" -> {c.h, c.h2}
      [] c.type = "setRenderTarget" -> {c.h}
      [] c.type = "setPipelineState" -> {c.h, c.h2}
      [] OTHER -> {}

----------------------------------------------------------------------------
\* The resource table.

NullPtr == [kind |-> "null", obj |-> <<0, 0>>, colors |-> 0, depth |-> FALSE]

NewResource(k, id, pos) ==
    [kind |-> k, obj |-> <<id, pos>>, colors |-> 0, depth |-> FALSE]

\* A render target with the given number of colour textures and, if depth,
\* a depth texture.
NewRenderTarget(id, pos, colors, depth) ==
    [NewResource("RenderTarget", id, pos) EXCEPT !.colors = colors, !.depth = depth]

\* A slot that holds no resource: beyond the table, or an empty unique_ptr.
EmptySlot(res, h) == h > Len(res) \/ res[h] = NullPtr

\* getResource<T>(id): 0 is "no resource"; an empty or out-of-range slot is a
\* protocol error.
GetResourceFails(res, h) == h # 0 /\ EmptySlot(res, h)

\* if (handle > resources.size()) resources.resize(handle);
ResizeTableShrinking(res, h) ==
    [i \in 1..h |-> IF i <= Len(res) THEN res[i] ELSE NullPtr]

ResizeTable(res, h) ==
    IF h > Len(res)
    THEN [i \in 1..h |-> IF i <= Len(res) THEN res[i] ELSE NullPtr]
    ELSE res

\* resources[handle - 1] = std::move(resource);
StoreResourceOffByOne(res, h, r) == [ResizeTable(res, h + 1) EXCEPT ![h + 1] = r]

StoreResource(res, h, r) == [ResizeTable(res, h) EXCEPT ![h] = r]

\* resources[handle - 1].reset();
ResetSlotErase(res, h) ==
    [i \in 1..(Len(res) - 1) |-> IF i < h THEN res[i] ELSE res[i + 1]]

ResetSlot(res, h) == [res EXCEPT ![h] = NullPtr]

----------------------------------------------------------------------------
\* The views of the backend.  A view is named by who owns it (the device or
\* a render target), by the owner's object and by the attachment it views.
View(owner, obj, slot, index) ==
    [owner |-> owner, obj |-> obj, slot |-> slot, index |-> index]

\* nullptr
NullView == View("none", <<0, 0>>, "", 0)

\* backBuffer, renderTargetView ("color") and depthStencilView ("depth") as
\* created by init() (n = 0) or by the resize that is entry n of the
\* commands executed.
DeviceView(n, slot) == View("device", <<n, 0>>, slot, 0)

\* depthStencilTexture, likewise, with the description it was created from;
\* format "" is no texture.
DepthStencilTexture(n, format, sampleCount) ==
    [made |-> n, Format |-> format, SampleCount |-> sampleCount]

\* currentRenderTarget->getRenderTargetViews(), getDepthStencilView(): one
\* view per colour texture, and a depth/stencil view if the render target
\* has a depth texture.
RenderTargetViews(r) == [i \in 1..r.colors |-> View("target", r.obj, "color", i)]

DepthStencilViewOf(r) ==
    IF r.depth THEN View("target", r.obj, "depth", 0) ELSE NullView

\* init(): depthStencilDesc.Format
DepthStencilFormat(stencil) ==
    IF stencil THEN "D24_UNORM_S8_UINT" ELSE "D32_FLOAT"

\* The device after init() with the given settings: the back buffer and its
\* view, the depth/stencil texture and its view if depth is enabled, no
\* sampler state, and nothing bound to the context's output merger.
\* refused is the set of backend calls after ResizeBuffers that the backend
\* of this device can refuse.  executeQueue holds the closures handed to
\* executeOnRenderThread, queued counts them, and executed is the history of
\* their runs.
NewDevice(depth, stencil, sampleCount) ==
    [depth |-> depth, stencil |-> stencil, sampleCount |-> sampleCount,
     backBuffer |-> DeviceView(0, "backBuffer"),
     renderTargetView |-> DeviceView(0, "color"),
     depthStencilTexture |->
        IF depth
        THEN DepthStencilTexture(0, DepthStencilFormat(stencil), sampleCount)
        ELSE DepthStencilTexture(0, "", 0),
     depthStencilView |-> IF depth THEN DeviceView(0, "depth") ELSE NullView,
     samplerStates |-> {},
     omRenderTargets |-> [renderTargetViews |-> <<>>, depthStencilView |-> NullView],
     refused |-> {},
     executeQueue |-> <<>>, queued |-> 0, executed |-> <<>>]

\* What the backend answers to the calls a command makes.

ErrorKinds == {"protocol", "backend", "deviceLost"}

\* The error kind of a failed HRESULT thrown as std::system_error.
ErrorKind(hr) ==
    IF hr = "DXGI_ERROR_DEVICE_REMOVED" THEN "deviceLost" ELSE "backend"

\* An index outside the table is undefined behaviour: the build either
\* faults or goes on without a visible effect.
OutOfBounds(res, h) == h = 0 \/ h > Len(res)

\* The constructor of a resource class: it creates the backend object and
\* throws std::system_error when the backend refuses.
ConstructorResults == {"S_OK", "E_FAIL"}

\* The commands whose handlers call through currentRenderTarget and through
\* currentShader when the pointer is not null.
UsesRenderTarget(c) ==
    \/ c.type \in {"present", "setRenderTarget"}
    \/ /\ c.type = "clearRenderTarget"
       /\ c.clearColorBuffer \/ c.clearDepthBuffer \/ c.clearStencilBuffer

UsesShader(c) == c.type = "setShaderConstants"

\* resources still owns the object p points to.
Holds(res, p) == \E h \in DOMAIN res : res[h] = p

UsesDestroyed(c, res) ==
    \/ /\ UsesRenderTarget(c)
       /\ session.currentRenderTarget # 0
       /\ ~Holds(res, session.renderTargetObject)
    \/ /\ UsesShader(c)
       /\ session.currentShader # 0
       /\ ~Holds(res, session.shaderObject)

BackendResults(c, res, fbs) ==
    \* A call through currentRenderTarget or currentShader after the object
    \* was destroyed is undefined.
    IF UsesDestroyed(c, res) THEN {"fault", "silent"} ELSE
    CASE c.type = "resize" /\ c.v # fbs ->
            {"S_OK", "E_FAIL", "DXGI_ERROR_DEVICE_REMOVED"} \cup device.refused
      \* ClearDepthStencilView(depthStencilView.get(), ...) on a device without
      \* a depth buffer passes nullptr, which is undefined.
      [] /\ c.type = "clearRenderTarget"
         /\ session.currentRenderTarget = 0
         /\ c.clearDepthBuffer
         /\ device.depthStencilView = NullView -> {"fault", "silent"}
      [] c.type = "initBuffer" /\ c.h = 0 -> {"fault", "silent"}
      [] c.type = "initBuffer" /\ c.h # 0 -> ConstructorResults
      [] c.type = "deleteResource" /\ OutOfBounds(res, c.h) -> {"fault", "silent"}
      [] c.type = "setShaderConstants" -> {"S_OK", "E_FAIL", "S_OK,E_FAIL"}
      [] OTHER -> {"S_OK"}

\* getIndexFormat
ValidIndexSize(indexSize) == indexSize \in {2, 4}

\* process(): the locals a call of process() starts with.
ProcessLocals ==
    [fillModeIndex |-> 0, scissorEnableIndex |-> 0, cullModeIndex |-> 0,
     currentRenderTarget |-> 0, currentShader |-> 0,
     renderTargetObject |-> NullPtr, shaderObject |-> NullPtr]

\* The switch of process(): what executing command c does, given the
\* backend's answer hr.  out is "ok", "present", an error kind (the command
\* threw) or "fault" (the process died).
Unchanged(o) ==
    [out |-> o, resources |-> resources, session |-> session,
     frameBufferSize |-> frameBufferSize, drawCalls |-> drawCalls,
     calls |-> contextCalls, device |-> device]

\* One call on the device context or the swap chain, made by the command
\* being executed.
Call(name, arg) == [call |-> name, arg |-> arg, cmd |-> Len(execLog) + 1]

\* A throw, after the calls made so far.
Throw(kind, calls) == [Unchanged(kind) EXCEPT !.calls = calls]

\* currentRenderTarget->resolve(), if a render target is current.
ResolveNothing(calls) == calls

ResolveCurrent(calls) ==
    IF session.currentRenderTarget # 0
    THEN Append(calls, Call("resolve", <<session.currentRenderTarget>>))
    ELSE calls

\* fillModeIndex * 6 + scissorEnableIndex * 3 + cullModeIndex
RasterizerStateIndexWithoutScissor(s) == s.fillModeIndex * 6 + s.cullModeIndex

RasterizerStateIndexNarrow(s) ==
    s.fillModeIndex * 2 + s.scissorEnableIndex * 3 + s.cullModeIndex

RasterizerStateIndex(s) ==
    s.fillModeIndex * 6 + s.scissorEnableIndex * 3 + s.cullModeIndex

\* init(): rasterizerStates, filled by the loops over fillMode (2),
\* scissorEnable (2) and cullMode (3), the index counting the iterations.
RasterizerStatesCullMajor ==
    [i \in 0..(2 * 2 * 3 - 1) |->
        [FillMode |-> IF i % 2 = 0 THEN "solid" ELSE "wireframe",
         ScissorEnable |-> (i \div 2) % 2 # 0,
         CullMode |-> <<"none", "front", "back">>[(i \div 4) + 1]]]

RasterizerStates ==
    [i \in 0..(2 * 2 * 3 - 1) |->
        [FillMode |-> IF i \div 6 = 0 THEN "solid" ELSE "wireframe",
         ScissorEnable |-> (i \div 3) % 2 # 0,
         CullMode |-> <<"none", "front", "back">>[(i % 3) + 1]]]

\* switch (cullMode), switch (fillMode)
CullModes == [none |-> 0, front |-> 1, back |-> 2]
FillModes == [solid |-> 0, wireframe |-> 1]

\* The constant locations a shader declares, by their sizes in bytes.
FragmentShaderConstantLocations(shader) == <<16>>
VertexShaderConstantLocations(shader) == <<64>>

\* The size tests of setShaderConstants for one stage.
InvalidConstantSize(constants, locations) ==
    \/ Len(constants) > Len(locations)
    \/ \E i \in 1..Len(constants) : constants[i] # locations[i]

\* getIndexFormat: the bits of the index format.
IndexFormat(indexSize) == IF indexSize = 2 THEN 16 ELSE 32

SetRenderTarget(c) ==
    LET resolved == ResolveCurrent(contextCalls) IN
        IF c.h # 0
        THEN IF GetResourceFails(resources, c.h) THEN Throw("protocol", resolved)
             ELSE [Unchanged("ok") EXCEPT
                     !.session.currentRenderTarget = c.h,
                     !.session.renderTargetObject = resources[c.h],
                     !.device.omRenderTargets =
                         [renderTargetViews |-> RenderTargetViews(resources[c.h]),
                          depthStencilView |-> DepthStencilViewOf(resources[c.h])],
                     !.calls = Append(resolved, Call("OMSetRenderTargets", <<c.h>>))]
        ELSE [Unchanged("ok") EXCEPT
                !.session.currentRenderTarget = 0,
                !.session.renderTargetObject = NullPtr,
                !.device.omRenderTargets =
                    [renderTargetViews |-> <<device.renderTargetView>>,
                     depthStencilView |-> device.depthStencilView],
                !.calls = Append(resolved, Call("OMSetRenderTargets", <<0>>))]

SetScissorTest(c) ==
    LET s == [session EXCEPT !.scissorEnableIndex = IF c.v # 0 THEN 1 ELSE 0] IN
        [Unchanged("ok") EXCEPT
            !.session = s,
            !.calls = Append(contextCalls, Call("RSSetState", <<RasterizerStateIndex(s)>>))]

SetPipelineState(c) ==
    IF GetResourceFails(resources, c.h2) \/ GetResourceFails(resources, c.h)
    THEN Unchanged("protocol")
    ELSE LET bound == Append(contextCalls, Call("SetShader", <<c.h>>)) IN
         IF c.cullMode \notin DOMAIN CullModes \/ c.fillMode \notin DOMAIN FillModes
         THEN Throw("protocol", bound)
         ELSE LET s == [session EXCEPT !.currentShader = c.h,
                                       !.shaderObject =
                                           IF c.h = 0 THEN NullPtr
                                           ELSE resources[c.h],
                                       !.cullModeIndex = CullModes[c.cullMode],
                                       !.fillModeIndex = FillModes[c.fillMode]] IN
              [Unchanged("ok") EXCEPT
                  !.session = s,
                  !.calls = Append(bound, Call("RSSetState", <<RasterizerStateIndex(s)>>))]

\* if (!currentShader)
ShaderAssumedSet(s) == FALSE

NoShaderSet(s) == s.currentShader = 0

SetShaderConstants(c, hr) ==
    IF NoShaderSet(session) THEN Unchanged("protocol")
    ELSE IF InvalidConstantSize(c.fragmentShaderConstants,
                FragmentShaderConstantLocations(session.currentShader))
    THEN Unchanged("protocol")
    ELSE LET fragment == Append(contextCalls, Call("uploadBuffer", <<0>>)) IN
         IF hr = "E_FAIL" THEN Throw("backend", fragment)
         ELSE IF InvalidConstantSize(c.vertexShaderConstants,
                     VertexShaderConstantLocations(session.currentShader))
         THEN Throw("protocol", fragment)
         ELSE LET vertex == Append(fragment, Call("uploadBuffer", <<1>>)) IN
              IF hr # "S_OK" THEN Throw("backend", vertex)
              ELSE [Unchanged("ok") EXCEPT !.calls = vertex]

\* context->DrawIndexed(indexCount, startIndex, 0)
DrawIndexedFromZero(c) == <<c.indexCount, 0>>

DrawIndexedArgs(c) == <<c.indexCount, c.startIndex>>

DrawIndexedFirst(c) ==
    [Unchanged(IF ValidIndexSize(c.v) THEN "ok" ELSE "protocol") EXCEPT
        !.drawCalls = drawCalls + 1,
        !.calls = Append(contextCalls, Call("DrawIndexed", DrawIndexedArgs(c)))]

Draw(c) ==
    IF \E h \in LooksUp(c) : GetResourceFails(resources, h)
    THEN Unchanged("protocol")
    ELSE IF 0 \in LooksUp(c) THEN Unchanged("fault")
    ELSE LET vertices == Append(contextCalls, Call("IASetVertexBuffers", <<c.h2>>)) IN
         IF ~ValidIndexSize(c.v) THEN Throw("protocol", vertices)
         ELSE [Unchanged("ok") EXCEPT
                 !.drawCalls = drawCalls + 1,
                 !.calls = vertices \o
                     <<Call("IASetIndexBuffer", <<c.h, IndexFormat(c.v)>>),
                       Call("DrawIndexed", DrawIndexedArgs(c))>>]

\* D3D11_CLEAR_DEPTH | D3D11_CLEAR_STENCIL, as the two flags select them.
ClearFlags(c) ==
    (IF c.clearDepthBuffer THEN {"D3D11_CLEAR_DEPTH"} ELSE {})
        \cup (IF c.clearStencilBuffer THEN {"D3D11_CLEAR_STENCIL"} ELSE {})

ClearRenderTarget(c, hr) ==
    LET ClearViews(vs) ==
            [i \in DOMAIN vs |-> Call("ClearRenderTargetView", <<vs[i]>>)]
    IN
    IF session.currentRenderTarget # 0
    THEN LET target == session.renderTargetObject
             color == IF c.clearColorBuffer
                      THEN contextCalls \o ClearViews(RenderTargetViews(target))
                      ELSE contextCalls
         IN  IF (c.clearDepthBuffer \/ c.clearStencilBuffer)
                    /\ DepthStencilViewOf(target) # NullView
             THEN [Unchanged("ok") EXCEPT
                     !.calls = Append(color,
                         Call("ClearDepthStencilView",
                              <<DepthStencilViewOf(target), ClearFlags(c)>>))]
             ELSE [Unchanged("ok") EXCEPT !.calls = color]
    ELSE LET color == IF c.clearColorBuffer
                      THEN contextCalls \o ClearViews(<<device.renderTargetView>>)
                      ELSE contextCalls
         IN  IF c.clearDepthBuffer
             THEN [Unchanged(IF hr = "fault" THEN "fault" ELSE "ok") EXCEPT
                     !.calls = Append(color,
                         Call("ClearDepthStencilView",
                              <<device.depthStencilView, ClearFlags(c)>>))]
             ELSE [Unchanged("ok") EXCEPT !.calls = color]

\* resizeBackBuffer.  hr is the backend's answer to ResizeBuffers or, when
\* that succeeds, the name of the later call the backend refuses.
SizeAlwaysDiffers(c) == TRUE

\* if (frameBufferWidth != newWidth || frameBufferHeight != newHeight)
SizeDiffers(c) == c.v # frameBufferSize

ResizeBackBufferRecordsSizeFirst(c, hr) ==
    IF ~SizeDiffers(c) THEN Unchanged("ok")
    ELSE LET n == Len(execLog) + 1
             resized == Append(contextCalls, Call("ResizeBuffers", <<c.v>>))
             viewed == Append(resized,
                 Call("CreateRenderTargetView", <<DeviceView(n, "backBuffer")>>))
             textured == Append(viewed,
                 Call("CreateTexture2D", <<"D32_FLOAT", device.sampleCount>>))
             buffer == [device EXCEPT !.backBuffer = DeviceView(n, "backBuffer")]
             color == [buffer EXCEPT !.renderTargetView = DeviceView(n, "color")]
             texture == [color EXCEPT !.depthStencilTexture =
                            DepthStencilTexture(n, "D32_FLOAT", device.sampleCount)]
             depth == [texture EXCEPT !.depthStencilView = DeviceView(n, "depth")]
         IN
         IF hr \in {"E_FAIL", "DXGI_ERROR_DEVICE_REMOVED"}
         THEN Throw(ErrorKind(hr), resized)
         ELSE IF hr = "GetBuffer" THEN Throw("backend", resized)
         ELSE IF hr = "CreateRenderTargetView"
         THEN [Throw("backend", viewed) EXCEPT !.device = buffer, !.frameBufferSize = c.v]
         ELSE IF ~device.depth
         THEN [Unchanged("ok") EXCEPT
                 !.frameBufferSize = c.v, !.device = color, !.calls = viewed]
         ELSE IF hr = "CreateTexture2D"
         THEN [Throw("backend", textured) EXCEPT !.device = color, !.frameBufferSize = c.v]
         ELSE IF hr = "CreateDepthStencilView"
         THEN [Throw("backend", Append(textured, Call("CreateDepthStencilView", <<n>>)))
                  EXCEPT !.device = texture, !.frameBufferSize = c.v]
         ELSE [Unchanged("ok") EXCEPT
                 !.frameBufferSize = c.v, !.device = depth,
                 !.calls = Append(textured, Call("CreateDepthStencilView", <<n>>))]

ResizeBackBuffer(c, hr) ==
    IF ~SizeDiffers(c) THEN Unchanged("ok")
    ELSE LET n == Len(execLog) + 1
             resized == Append(contextCalls, Call("ResizeBuffers", <<c.v>>))
             viewed == Append(resized,
                 Call("CreateRenderTargetView", <<DeviceView(n, "backBuffer")>>))
             textured == Append(viewed,
                 Call("CreateTexture2D", <<"D32_FLOAT", device.sampleCount>>))
             buffer == [device EXCEPT !.backBuffer = DeviceView(n, "backBuffer")]
             color == [buffer EXCEPT !.renderTargetView = DeviceView(n, "color")]
             texture == [color EXCEPT !.depthStencilTexture =
                            DepthStencilTexture(n, "D32_FLOAT", device.sampleCount)]
             depth == [texture EXCEPT !.depthStencilView = DeviceView(n, "depth")]
         IN
         IF hr \in {"E_FAIL", "DXGI_ERROR_DEVICE_REMOVED"}
         THEN Throw(ErrorKind(hr), resized)
         ELSE IF hr = "GetBuffer" THEN Throw("backend", resized)
         ELSE IF hr = "CreateRenderTargetView"
         THEN [Throw("backend", viewed) EXCEPT !.device = buffer]
         ELSE IF ~device.depth
         THEN [Unchanged("ok") EXCEPT
                 !.frameBufferSize = c.v, !.device = color, !.calls = viewed]
         ELSE IF hr = "CreateTexture2D"
         THEN [Throw("backend", textured) EXCEPT !.device = color]
         ELSE IF hr = "CreateDepthStencilView"
         THEN [Throw("backend", Append(textured, Call("CreateDepthStencilView", <<n>>)))
                  EXCEPT !.device = texture]
         ELSE [Unchanged("ok") EXCEPT
                 !.frameBufferSize = c.v, !.device = depth,
                 !.calls = Append(textured, Call("CreateDepthStencilView", <<n>>))]

\* initBuffer: std::make_unique<Buffer>(...), which throws when the backend
\* refuses, then the resize of the table and the store.
InitBufferResizesFirst(c, hr) ==
    IF c.h = 0 THEN Unchanged(IF hr = "fault" THEN "fault" ELSE "ok")
    ELSE IF hr # "S_OK"
    THEN [Unchanged(ErrorKind(hr)) EXCEPT !.resources = ResizeTable(resources, c.h)]
    ELSE [Unchanged("ok") EXCEPT
            !.resources = StoreResource(resources, c.h,
                              NewResource("Buffer", cur.id, cur.pos))]

InitBuffer(c, hr) ==
    IF c.h = 0 THEN Unchanged(IF hr = "fault" THEN "fault" ELSE "ok")
    ELSE IF hr # "S_OK" THEN Unchanged(ErrorKind(hr))
    ELSE [Unchanged("ok") EXCEPT
            !.resources = StoreResource(resources, c.h,
                              NewResource("Buffer", cur.id, cur.pos))]

Dispatch(c, hr) ==
    IF UsesDestroyed(c, resources) /\ hr = "fault" THEN Unchanged("fault") ELSE
    CASE c.type = "resize" -> ResizeBackBuffer(c, hr)
      [] c.type = "clearRenderTarget" -> ClearRenderTarget(c, hr)
      [] c.type = "present" ->
            [Unchanged("present") EXCEPT
                !.calls = Append(ResolveCurrent(contextCalls), Call("Present", <<>>))]
      [] c.type = "deleteResource" ->
            IF OutOfBounds(resources, c.h)
            THEN Unchanged(IF hr = "fault" THEN "fault" ELSE "ok")
            ELSE [Unchanged("ok") EXCEPT !.resources = ResetSlot(resources, c.h)]
      [] c.type = "initBuffer" -> InitBuffer(c, hr)
      [] c.type = "setBufferData" ->
            IF GetResourceFails(resources, c.h) THEN Unchanged("protocol")
            ELSE IF c.h = 0 THEN Unchanged("fault")
            ELSE Unchanged("ok")
      [] c.type = "setRenderTarget" -> SetRenderTarget(c)
      [] c.type = "setScissorTest" -> SetScissorTest(c)
      [] c.type = "setPipelineState" -> SetPipelineState(c)
      [] c.type = "setShaderConstants" ->
            SetShaderConstants(c, IF hr = "silent" THEN "S_OK" ELSE hr)
      [] c.type = "draw" -> Draw(c)
      [] OTHER -> Unchanged("protocol")

----------------------------------------------------------------------------
\* The producer role.

\* The producer's view of the program order: the handles live after issuing
\* the commands of b, and whether every reference was to a live handle.
RECURSIVE Issue(_, _, _)
Issue(b, l, ok) ==
    IF b = <<>> THEN [live |-> l, ok |-> ok]
    ELSE LET c == Head(b) IN
         Issue(Tail(b),
               CASE c.type = "initBuffer" -> l \cup {c.h}
                 [] c.type = "deleteResource" -> l \ {c.h}
                 [] OTHER -> l,
               ok /\ (Refers(c) \ {0}) \subseteq l)

\* One access of a role to a member of the device.
Access(r, x, m, l) == [role |-> r, var |-> x, mode |-> m, locked |-> l]

\* submitCommandBuffer: push under commandQueueMutex, then notify the
\* condition variable.  id, by and wf are history carried with the buffer.
SubmitCommandBuffer(b, who, wellFormed) ==
    /\ commandQueue' = Append(commandQueue,
            [id |-> pushCount + 1, by |-> who, wf |-> wellFormed, cmds |-> b])
    /\ pushCount' = pushCount + 1
    /\ pcR' = IF pcR = "waiting" THEN "lock" ELSE pcR
    /\ accesses' = accesses \cup {Access("producer", "commandQueue", "write", TRUE)}

\* The sequences of at most n elements of S.
SeqsUpTo(S, n) == UNION {[1..k -> S] : k \in 0..n}

\* The commands the producers of the queue protocol draw from: one that
\* cannot fail, a present, one with an invalid tag, one that calls into the
\* backend and may fail there.
ProtocolCommands ==
    {SetScissorTestCommand(1), PresentCommand, InvalidCommand, ResizeCommand(2)}

\* The buffers of at most n such commands.
ProtocolBuffers(n) == SeqsUpTo(ProtocolCommands, n)

\* What a buffer takes of the producers' budget; an empty buffer counts too.
Cost(b) == IF b = <<>> THEN 1 ELSE Len(b)

Submit(p, b) ==
    /\ pcD = "alive"
    /\ issued + Cost(b) <= MaxCommands
    /\ issued' = issued + Cost(b)
    /\ LET i == Issue(b, live, programOK) IN
        /\ SubmitCommandBuffer(b, p, i.ok)
        /\ live' = i.live
        /\ programOK' = i.ok
    /\ UNCHANGED <<running, commandBuffer, resources, session, frameBufferSize,
                   pcD, cur, taken, execLog, errorLog, drawCalls, contextCalls, renderer, device, engine>>

----------------------------------------------------------------------------
\* The render thread.

\* std::unique_lock lock(commandQueueMutex); ... lock.unlock(): the positions
\* at which the render thread holds the queue's mutex.
NeverHoldsQueueMutex(pc) == FALSE

HoldsQueueMutex(pc) == pc = "lock"

\* renderMain: while (running)
LoopForever == TRUE

LoopCondition == running

RLoopCheck ==
    /\ pcR = "loop"
    /\ pcR' = IF LoopCondition THEN "process" ELSE "done"
    /\ accesses' = accesses \cup {Access("render", "running", "read", HoldsQueueMutex(pcR))}
    /\ UNCHANGED <<running, commandQueue, commandBuffer, resources, session,
                   frameBufferSize, pcD, live, programOK, issued, pushCount, cur, taken,
                   execLog, errorLog, drawCalls, contextCalls, renderer, device, engine>>

\* The session state a call of process() starts with, given the one the
\* previous call ended with.
LocalsKept(s) == s

LocalsAtEntry(s) == ProcessLocals

\* The positions of the render thread at which executeAll() is called.
ExecuteAllCalledAnywhere(pc) == pc \in {"process", "lock", "waiting", "drain"}

\* process(): executeAll();
ExecuteAllCalled(pc) == pc = "process"

\* process(), up to its for (;;): executeAll() has emptied the queue of
\* closures and the locals are initialised.
RProcessEnter ==
    /\ pcR = "process"
    /\ device.executeQueue = <<>>
    /\ session' = LocalsAtEntry(session)
    /\ commandBuffer' = <<>>
    /\ pcR' = "lock"
    /\ UNCHANGED <<running, commandQueue, resources, frameBufferSize, pcD, live,
                   programOK, issued, pushCount, cur, taken, execLog, errorLog, drawCalls, contextCalls, accesses, renderer, device, engine>>

\* while (commandQueue.empty()): the test that sends the thread to wait.
WaitsBeforeTesting(q) == TRUE

MustWait(q) == q = <<>>

\* while (commandQueue.empty()) commandQueueCondition.wait(lock);
RWait ==
    /\ pcR = "lock"
    /\ MustWait(commandQueue)
    /\ pcR' = "waiting"
    /\ accesses' = accesses \cup {Access("render", "commandQueue", "read", HoldsQueueMutex(pcR))}
    /\ UNCHANGED <<running, commandQueue, commandBuffer, resources, session,
                   frameBufferSize, pcD, live, programOK, issued, pushCount, cur, taken,
                   execLog, errorLog, drawCalls, contextCalls, renderer, device, engine>>

\* A wait may return without a notification; the loop tests the queue again.
RSpuriousWake ==
    /\ pcR = "waiting"
    /\ pcR' = "lock"
    /\ UNCHANGED <<running, commandQueue, commandBuffer, resources, session,
                   frameBufferSize, pcD, live, programOK, issued, pushCount, cur, taken,
                   execLog, errorLog, drawCalls, contextCalls, accesses, renderer, device, engine>>

\* commandQueue.front()
Back(q) == q[Len(q)]

Front(q) == Head(q)

\* while (!commandBuffer.isEmpty()): where the thread is with buffer b.
DrainOrLock(b) == IF b = <<>> THEN "lock" ELSE "drain"

\* commandBuffer = std::move(commandQueue.front()); commandQueue.pop();
RPop ==
    /\ pcR = "lock"
    /\ commandQueue # <<>>
    /\ LET f == Front(commandQueue) IN
        /\ commandBuffer' = f.cmds
        /\ cur' = [id |-> f.id, by |-> f.by, wf |-> f.wf, pos |-> 1,
                   len |-> Len(f.cmds)]
        /\ taken' = Append(taken, f.id)
        /\ pcR' = DrainOrLock(f.cmds)
    /\ commandQueue' = Tail(commandQueue)
    /\ accesses' = accesses \cup {Access("render", "commandQueue", m, HoldsQueueMutex(pcR)) :
                                   m \in {"read", "write"}}
    /\ UNCHANGED <<running, resources, session, frameBufferSize, pcD, live,
                   programOK, issued, pushCount, execLog, errorLog, drawCalls, contextCalls, renderer, device, engine>>

\* if (command->type == Command::Type::present) return;
ReturnsWhenDrained(c, rest) == c.type = "present" /\ rest = <<>>

NeverReturns(c, rest) == FALSE

ReturnsAfter(c, rest) == c.type = "present"

\* An exception leaves process(), whose local commandBuffer is destroyed with
\* the commands left in it; renderMain's catch logs it and the loop goes on.
CatchInsideDrain(kind, rest) == [pc |-> DrainOrLock(rest), buffer |-> rest]

CatchRethrowsFatal(kind, rest) ==
    [pc |-> IF kind \in {"protocol", "deviceLost"} THEN "done" ELSE "loop",
     buffer |-> <<>>]

Catch(kind, rest) == [pc |-> "loop", buffer |-> <<>>]

\* executeOnRenderThread(func), as setFullscreen calls it from the producer
\* side: the closure is queued, with whether the render thread was then
\* blocked on the empty queue and how many commands it had executed.
ExecuteOnRenderThread ==
    /\ pcD = "alive"
    /\ issued < MaxCommands
    /\ issued' = issued + 1
    /\ device' = [device EXCEPT
            !.queued = device.queued + 1,
            !.executeQueue = Append(device.executeQueue,
                [id |-> device.queued + 1, blocked |-> pcR = "waiting",
                 after |-> Len(execLog)])]
    /\ UNCHANGED <<running, commandQueue, pcR, commandBuffer, resources, session,
                   frameBufferSize, pcD, live, programOK, pushCount, cur,
                   taken, execLog, errorLog, drawCalls, contextCalls, accesses,
                   renderer, engine>>

\* One turn of executeAll(): the closure at the front is taken and run.  The
\* closure of setFullscreen throws when SetFullscreenState fails, which
\* leaves process().
RExecuteAll ==
    /\ ExecuteAllCalled(pcR)
    /\ device.executeQueue # <<>>
    /\ \E hr \in {"S_OK", "E_FAIL"} :
        /\ device' = [device EXCEPT
                !.executeQueue = Tail(device.executeQueue),
                !.executed = Append(device.executed,
                    [id |-> Head(device.executeQueue).id,
                     blocked |-> Head(device.executeQueue).blocked,
                     after |-> Head(device.executeQueue).after,
                     at |-> Len(execLog)])]
        /\ IF hr = "S_OK"
           THEN UNCHANGED <<pcR, errorLog>>
           ELSE /\ errorLog' = Append(errorLog, ErrorKind(hr))
                /\ pcR' = Catch(ErrorKind(hr), <<>>).pc
    /\ UNCHANGED <<running, commandQueue, commandBuffer, resources, session,
                   frameBufferSize, pcD, live, programOK, issued, pushCount, cur,
                   taken, execLog, drawCalls, contextCalls, accesses, renderer, engine>>

\* One turn of while (!commandBuffer.isEmpty()): pop a command, execute it.
RExec ==
    /\ pcR = "drain"
    /\ commandBuffer # <<>>
    /\ LET command == Head(commandBuffer) IN
       \E hr \in BackendResults(command, resources, frameBufferSize) :
         LET r == Dispatch(command, hr) IN
            /\ resources' = r.resources
            /\ session' = r.session
            /\ frameBufferSize' = r.frameBufferSize
            /\ drawCalls' = r.drawCalls
            /\ contextCalls' = r.calls
            /\ device' = r.device
            /\ execLog' = Append(execLog,
                    [id |-> cur.id, by |-> cur.by, pos |-> cur.pos,
                     last |-> cur.pos = cur.len, wf |-> cur.wf,
                     run |-> running, type |-> command.type, h |-> command.h,
                     command |-> command, seen |-> session,
                     empty |-> \E h \in Refers(command) :
                                   h # 0 /\ EmptySlot(resources, h),
                     out |-> r.out])
            /\ cur' = [cur EXCEPT !.pos = cur.pos + 1]
            /\ IF r.out \in ErrorKinds
               THEN /\ errorLog' = Append(errorLog, r.out)
                    /\ commandBuffer' = Catch(r.out, Tail(commandBuffer)).buffer
                    /\ pcR' = Catch(r.out, Tail(commandBuffer)).pc
               ELSE /\ errorLog' = errorLog
                    /\ IF r.out = "fault"
                       THEN /\ commandBuffer' = <<>>
                            /\ pcR' = "crashed"
                       ELSE IF ReturnsAfter(command, Tail(commandBuffer))
                       THEN /\ commandBuffer' = <<>>
                            /\ pcR' = "loop"
                       ELSE /\ commandBuffer' = Tail(commandBuffer)
                            /\ pcR' = DrainOrLock(Tail(commandBuffer))
    /\ UNCHANGED <<running, commandQueue, pcD, live, programOK, issued, pushCount, taken,
                   accesses, renderer, engine>>

RenderThread == RLoopCheck \/ RProcessEnter \/ RWait \/ RSpuriousWake \/ RPop \/ RExec

----------------------------------------------------------------------------
\* The sampler cache.

SamplerStateDesc(filter, maxAnisotropy, addressX, addressY, addressZ) ==
    [filter |-> filter, maxAnisotropy |-> maxAnisotropy,
     addressX |-> addressX, addressY |-> addressY, addressZ |-> addressZ]

\* getTextureAddressMode; an address mode it does not know throws.
TextureAddressModes ==
    [clampToEdge |-> "CLAMP", clampToBorder |-> "BORDER",
     repeat |-> "WRAP", mirrorRepeat |-> "MIRROR"]

\* samplerStates.find(desc): the entries of the cache for desc.
AlwaysMisses(samplerStates, desc) == {}

Finds(samplerStates, desc) == {e \in samplerStates : e.desc = desc}

\* getSamplerState(desc), as the textures of the render thread call it.  The
\* sampler created by a call is named by the position of the call's return
\* in the history.
GetSamplerState(desc) ==
    /\ issued < MaxCommands
    /\ issued' = issued + 1
    /\ \E hr \in {"S_OK", "E_FAIL"} :
        LET found == Finds(device.samplerStates, desc)
            filters == [point |-> "MIN_MAG_MIP_POINT",
                        linear |-> "MIN_MAG_POINT_MIP_LINEAR",
                        bilinear |-> "MIN_MAG_LINEAR_MIP_POINT",
                        trilinear |-> "MIN_MAG_MIP_LINEAR"]
            invalid ==
                \/ desc.maxAnisotropy <= 1 /\ desc.filter \notin DOMAIN filters
                \/ \E a \in {desc.addressX, desc.addressY, desc.addressZ} :
                        a \notin DOMAIN TextureAddressModes
            created == Append(contextCalls, Call("CreateSamplerState", <<desc, hr>>))
            samplerState == Len(created) + 1
        IN  IF found # {}
            THEN /\ contextCalls' = Append(contextCalls,
                        Call("getSamplerState",
                             <<desc, (CHOOSE e \in found : TRUE).sampler>>))
                 /\ device' = device
            ELSE IF invalid
            THEN /\ contextCalls' = Append(contextCalls, Call("throw", <<desc, "protocol">>))
                 /\ device' = device
            ELSE IF hr # "S_OK"
            THEN /\ contextCalls' = Append(created, Call("throw", <<desc, "backend">>))
                 /\ device' = device
            ELSE /\ contextCalls' = Append(created,
                        Call("getSamplerState", <<desc, samplerState>>))
                 /\ device' = [device EXCEPT !.samplerStates =
                        {e \in @ : e.desc # desc}
                            \cup {[desc |-> desc, sampler |-> samplerState]}]
    /\ UNCHANGED <<running, commandQueue, pcR, commandBuffer, resources, session,
                   frameBufferSize, pcD, live, programOK, pushCount, cur, taken,
                   execLog, errorLog, drawCalls, accesses, renderer, engine>>

\* The descriptions the textures ask for.
SamplerDescs ==
    {SamplerStateDesc(f, n, x, "clampToEdge", z) :
        f \in {"point", "trilinear", "invalid"}, n \in {1, 4},
        x \in {"clampToEdge", "repeat"}, z \in {"clampToEdge", "invalid"}}

----------------------------------------------------------------------------
\* ~RenderDevice.

\* running = false;
DStop ==
    /\ pcD = "alive"
    /\ pcR # "crashed"
    /\ running' = FALSE
    /\ pcD' = "stopping"
    /\ accesses' = accesses \cup {Access("producer", "running", "write", FALSE)}
    /\ UNCHANGED <<commandQueue, pcR, commandBuffer, resources, session,
                   frameBufferSize, live, programOK, issued, pushCount, cur, taken,
                   execLog, errorLog, drawCalls, contextCalls, renderer, device, engine>>

\* The terminal buffer: one present.
TerminalBuffer == <<PresentCommand>>

DSubmit ==
    /\ pcD = "stopping"
    /\ SubmitCommandBuffer(TerminalBuffer, "destructor", programOK)
    /\ pcD' = "joining"
    /\ UNCHANGED <<running, commandBuffer, resources, session, frameBufferSize,
                   live, programOK, issued, cur, taken, execLog, errorLog, drawCalls, contextCalls, renderer, device, engine>>

\* if (renderThread.isJoinable()) renderThread.join();
DJoin ==
    /\ pcD = "joining"
    /\ pcR = "done"
    /\ pcD' = "destroyed"
    /\ UNCHANGED <<running, commandQueue, pcR, commandBuffer, resources, session,
                   frameBufferSize, live, programOK, issued, pushCount, cur, taken,
                   execLog, errorLog, drawCalls, contextCalls, accesses, renderer, device, engine>>

Destructor == DStop \/ DSubmit \/ DJoin

----------------------------------------------------------------------------
\* Renderer: the producer's draw queue.  Objects are named; "none" is the
\* null pointer.

\* shader->getVertexAttributes()
ShaderAttributes ==
    [shaderP |-> {"position"}, shaderPT |-> {"position", "texCoord"}]

\* vertexBuffer->getVertexAttributes()
VertexBufferAttributes ==
    [vbP |-> {"position"}, vbPT |-> {"position", "texCoord"}]

\* meshBuffer->getIndexBuffer(), meshBuffer->getVertexBuffer()
MeshBuffers ==
    [meshP |-> [indexBuffer |-> "ib", vertexBuffer |-> "vbP"],
     meshPT |-> [indexBuffer |-> "ib", vertexBuffer |-> "vbPT"],
     meshNoIndex |-> [indexBuffer |-> "none", vertexBuffer |-> "vbP"],
     meshNoVertex |-> [indexBuffer |-> "ib", vertexBuffer |-> "none"]]

\* indexBuffer->getIndexCount()
IndexCountOf(indexBuffer) == 3

RendererObjects ==
    DOMAIN ShaderAttributes \cup DOMAIN VertexBufferAttributes
        \cup DOMAIN MeshBuffers \cup {"ib", "blend"}

\* The renderer before the first draw of a frame is added, the resources
\* in d waiting for their upload.
\* No screenshot has been asked for and no present is running (pc);
\* requests, handled and presents are history: the calls of saveScreenshot
\* with their results, the calls of generateScreenshot with theirs, and the
\* presents that returned.
NewRenderer(d) ==
    [activeDrawQueue |-> <<>>, updateSet |-> {}, dirty |-> d,
     call |-> <<>>, result |-> <<>>,
     activeDrawQueueFinished |-> FALSE, drawQueue |-> <<>>,
     screenshotQueue |-> <<>>, pc |-> "idle", filename |-> "",
     requests |-> <<>>, handled |-> <<>>, presents |-> <<>>, before |-> 0,
     refillDrawQueue |-> TRUE, pcF |-> "idle", scheduled |-> {},
     buffer |-> [usage |-> "NONE", flags |-> {}, data |-> <<>>, calls |-> <<>>]]

\* if (!meshBuffer || !meshBuffer->getIndexBuffer() ||
\*     !meshBuffer->getVertexBuffer() || attributes differ)
InvalidMeshBufferIgnoringBuffers(shader, meshBuffer) ==
    \/ meshBuffer = "none"
    \/ /\ MeshBuffers[meshBuffer].vertexBuffer # "none"
       /\ ShaderAttributes[shader] #
              VertexBufferAttributes[MeshBuffers[meshBuffer].vertexBuffer]

InvalidMeshBuffer(shader, meshBuffer) ==
    \/ meshBuffer = "none"
    \/ MeshBuffers[meshBuffer].indexBuffer = "none"
    \/ MeshBuffers[meshBuffer].vertexBuffer = "none"
    \/ ShaderAttributes[shader] #
          VertexBufferAttributes[MeshBuffers[meshBuffer].vertexBuffer]

\* The resources of a draw that addDrawCommand looks at for the update set
\* (no textures and no render target are passed).
DrawResources(shader, blendState, meshBuffer) ==
    {shader, blendState, meshBuffer,
     MeshBuffers[meshBuffer].indexBuffer, MeshBuffers[meshBuffer].vertexBuffer}
        \ {"none"}

\* Renderer::addDrawCommand
AddDrawCommand(shader, blendState, meshBuffer, indexCount, startIndex) ==
    LET call == [shader |-> shader, blendState |-> blendState,
                 meshBuffer |-> meshBuffer, indexCount |-> indexCount,
                 startIndex |-> startIndex]
        Rejected(message) ==
            [renderer EXCEPT !.call = <<call>>, !.result = <<FALSE, message>>]
        inserted == DrawResources(shader, blendState, meshBuffer) \cap renderer.dirty
    IN
    /\ issued < MaxCommands
    /\ renderer.pcF = "idle"
    /\ issued' = issued + 1
    /\ accesses' =
          IF shader # "none" /\ ~InvalidMeshBuffer(shader, meshBuffer) /\ inserted # {}
          THEN accesses \cup {Access("producer", "updateSet", "write", FALSE)}
          ELSE accesses
    /\ renderer' =
          IF shader = "none"
          THEN Rejected("No shader passed to render queue")
          ELSE IF InvalidMeshBuffer(shader, meshBuffer)
          THEN Rejected("Invalid mesh buffer passed to render queue")
          ELSE [renderer EXCEPT
                  !.activeDrawQueue = Append(@,
                      [shader |-> shader, blendState |-> blendState,
                       meshBuffer |-> meshBuffer,
                       indexCount |->
                           IF indexCount > 0 THEN indexCount
                           ELSE IndexCountOf(MeshBuffers[meshBuffer].indexBuffer)
                                    - startIndex,
                       startIndex |-> startIndex]),
                  !.updateSet = @ \cup inserted,
                  !.scheduled = @ \cup inserted,
                  !.call = <<call>>,
                  !.result = <<TRUE, "">>]
    /\ UNCHANGED <<running, commandQueue, pcR, commandBuffer, resources, session,
                   frameBufferSize, pcD, live, programOK, pushCount, cur, taken,
                   execLog, errorLog, drawCalls, contextCalls, device, engine>>

\* The draws a scene hands to the renderer, as <<indexCount, startIndex>>;
\* none starts beyond the index count, so the unsigned subtraction of
\* addDrawCommand does not wrap.
DrawRanges == {<<0, 0>>, <<0, 1>>, <<3, 0>>}

NextRenderer ==
    \E shader \in DOMAIN ShaderAttributes \cup {"none"},
       blendState \in {"none", "blend"},
       meshBuffer \in DOMAIN MeshBuffers \cup {"none"},
       range \in DrawRanges :
        AddDrawCommand(shader, blendState, meshBuffer, range[1], range[2])

\* Renderer::flushDrawCommands, called by the thread that adds the draws.
FlushDrawCommands ==
    /\ issued < MaxCommands
    /\ renderer.pcF = "idle"
    /\ issued' = issued + 1
    /\ renderer' = [renderer EXCEPT !.refillDrawQueue = FALSE, !.pcF = "flush"]
    /\ UNCHANGED <<running, commandQueue, pcR, commandBuffer, resources, session,
                   frameBufferSize, pcD, live, programOK, pushCount, cur, taken,
                   execLog, errorLog, drawCalls, contextCalls, accesses, device, engine>>

\* flushDrawCommands: activeDrawQueueFinished = true;
FlushFinished ==
    /\ renderer.pcF = "flush"
    /\ renderer' = [renderer EXCEPT !.activeDrawQueueFinished = TRUE, !.pcF = "idle"]
    /\ UNCHANGED <<running, commandQueue, pcR, commandBuffer, resources, session,
                   frameBufferSize, pcD, live, programOK, issued, pushCount, cur,
                   taken, execLog, errorLog, drawCalls, contextCalls, accesses,
                   device, engine>>

\* Renderer::saveScreenshot, called by any thread: push under
\* screenshotMutex, return true.
SaveScreenshot(filename) ==
    /\ issued < MaxCommands
    /\ issued' = issued + 1
    /\ renderer' = [renderer EXCEPT
          !.screenshotQueue = Append(@, filename),
          !.requests = Append(@, [filename |-> filename, result |-> TRUE])]
    /\ UNCHANGED <<running, commandQueue, pcR, commandBuffer, resources, session,
                   frameBufferSize, pcD, live, programOK, pushCount, cur, taken,
                   execLog, errorLog, drawCalls, contextCalls, accesses, device, engine>>

\* present() returning ok, having failed at "upload", at "screenshot" or
\* nowhere ("").
Returned(r, ok, failed) ==
    [r EXCEPT !.pc = "idle",
              !.presents = Append(@, [ok |-> ok, failed |-> failed,
                                      before |-> r.before,
                                      handled |-> Len(r.handled),
                                      left |-> Len(r.screenshotQueue)])]

\* Renderer::present up to the uploads: if the draw queue was flushed, take
\* it, take the update set under updateMutex and upload the resources in
\* the order of the set; the first upload that fails makes present return
\* false, the resources before it having been uploaded.  Uploads is the
\* sets of resources that can have been uploaded when one fails.
Uploads(updates) == SUBSET updates \ {updates}

Present ==
    /\ renderer.pc = "idle"
    /\ Len(renderer.presents) < MaxCommands
    /\ LET began == [renderer EXCEPT !.before = Len(renderer.requests)]
           moved == [began EXCEPT !.drawQueue = renderer.activeDrawQueue,
                                  !.activeDrawQueue = <<>>,
                                  !.updateSet = {}]
       IN  IF ~renderer.activeDrawQueueFinished
           THEN /\ renderer' = [began EXCEPT !.pc = "loop"]
                /\ accesses' = accesses
           ELSE /\ accesses' = accesses \cup
                        {Access("render", "updateSet", "write", TRUE)}
                /\ \/ renderer' = [moved EXCEPT
                          !.dirty = @ \ renderer.updateSet, !.pc = "finished"]
                   \/ \E done \in Uploads(renderer.updateSet) :
                          renderer' = Returned([moved EXCEPT !.dirty = @ \ done],
                                               FALSE, "upload")
    /\ UNCHANGED <<running, commandQueue, pcR, commandBuffer, resources, session,
                   frameBufferSize, pcD, live, programOK, issued, pushCount, cur, taken,
                   execLog, errorLog, drawCalls, contextCalls, device, engine>>

\* present: activeDrawQueueFinished = false;
PresentFinished ==
    /\ renderer.pc = "finished"
    /\ renderer' = [renderer EXCEPT !.activeDrawQueueFinished = FALSE, !.pc = "refill"]
    /\ UNCHANGED <<running, commandQueue, pcR, commandBuffer, resources, session,
                   frameBufferSize, pcD, live, programOK, issued, pushCount, cur, taken,
                   execLog, errorLog, drawCalls, contextCalls, accesses, device, engine>>

\* present: refillDrawQueue = true;
PresentRefill ==
    /\ renderer.pc = "refill"
    /\ renderer' = [renderer EXCEPT !.refillDrawQueue = TRUE, !.pc = "loop"]
    /\ UNCHANGED <<running, commandQueue, pcR, commandBuffer, resources, session,
                   frameBufferSize, pcD, live, programOK, issued, pushCount, cur, taken,
                   execLog, errorLog, drawCalls, contextCalls, accesses, device, engine>>

\* screenshotQueue.pop()
PopKeeps(q) == q

Pop(q) == Tail(q)

\* generateScreenshots, under screenshotMutex: leave the loop if the queue
\* is empty, else take its front.
TakeScreenshot ==
    /\ renderer.pc = "loop"
    /\ renderer' =
          IF renderer.screenshotQueue = <<>>
          THEN [renderer EXCEPT !.pc = "return"]
          ELSE [renderer EXCEPT !.filename = Head(renderer.screenshotQueue),
                                !.screenshotQueue = Pop(@),
                                !.pc = "generate"]
    /\ UNCHANGED <<running, commandQueue, pcR, commandBuffer, resources, session,
                   frameBufferSize, pcD, live, programOK, issued, pushCount, cur, taken,
                   execLog, errorLog, drawCalls, contextCalls, accesses, device, engine>>

\* generateScreenshots, outside the mutex: generateScreenshot(filename), as
\* the backend's renderer implements it; false makes generateScreenshots
\* and present return false.
GenerateScreenshot ==
    /\ renderer.pc = "generate"
    /\ \E written \in BOOLEAN :
        LET r == [renderer EXCEPT
                    !.handled = Append(@, [filename |-> renderer.filename,
                                           ok |-> written])]
        IN  renderer' = IF written THEN [r EXCEPT !.pc = "loop"]
                        ELSE Returned(r, FALSE, "screenshot")
    /\ UNCHANGED <<running, commandQueue, pcR, commandBuffer, resources, session,
                   frameBufferSize, pcD, live, programOK, issued, pushCount, cur, taken,
                   execLog, errorLog, drawCalls, contextCalls, accesses, device, engine>>

\* generateScreenshots returns true after the loop, and present does.
PresentReturn ==
    /\ renderer.pc = "return"
    /\ renderer' = Returned(renderer, TRUE, "")
    /\ UNCHANGED <<running, commandQueue, pcR, commandBuffer, resources, session,
                   frameBufferSize, pcD, live, programOK, issued, pushCount, cur, taken,
                   execLog, errorLog, drawCalls, contextCalls, accesses, device, engine>>

NextScreenshot ==
    \/ AddDrawCommand("shaderP", "blend", "meshP", 0, 0)
    \/ \E filename \in {"a.png", "b.png"} : SaveScreenshot(filename)
    \/ FlushDrawCommands
    \/ FlushFinished
    \/ Present
    \/ PresentFinished
    \/ PresentRefill
    \/ TakeScreenshot
    \/ GenerateScreenshot
    \/ PresentReturn

----------------------------------------------------------------------------
\* BufferInterface, one buffer of the renderer.  flags is the set of the
\* bits that are set; calls is the history of the calls made on the buffer.

\* if (!(flags & Buffer::DYNAMIC))
AssumedDynamic(flags) == TRUE

IsDynamic(flags) == "DYNAMIC" \in flags

\* data.resize(newSize): the first newSize bytes, zeros where there were none.
Resized(data, newSize) ==
    [i \in 1..newSize |-> IF i <= Len(data) THEN data[i] ELSE 0]

\* One call on the buffer: the members after it and its entry in the history.
BufferCall(name, usage, flags, data, arg, result) ==
    /\ issued < MaxCommands
    /\ issued' = issued + 1
    /\ renderer' = [renderer EXCEPT !.buffer =
            [usage |-> usage, flags |-> flags, data |-> data,
             calls |-> Append(renderer.buffer.calls,
                          [name |-> name, arg |-> arg, result |-> result])]]
    /\ UNCHANGED <<running, commandQueue, pcR, commandBuffer, resources, session,
                   frameBufferSize, pcD, live, programOK, pushCount, cur, taken,
                   execLog, errorLog, drawCalls, contextCalls, accesses, device, engine>>

\* BufferInterface::init(newUsage, newFlags, newSize)
BufferInitSize(newUsage, newFlags, newSize) ==
    BufferCall("init", newUsage, newFlags,
               Resized(renderer.buffer.data, newSize), <<>>, TRUE)

\* BufferInterface::init(newUsage, newData, newFlags)
BufferInitData(newUsage, newData, newFlags) ==
    BufferCall("init", newUsage, newFlags, newData, newData, TRUE)

\* BufferInterface::setData(newData)
BufferSetData(newData) ==
    IF ~IsDynamic(renderer.buffer.flags)
    THEN BufferCall("setData", renderer.buffer.usage, renderer.buffer.flags,
                    renderer.buffer.data, newData, FALSE)
    ELSE BufferCall("setData", renderer.buffer.usage, renderer.buffer.flags,
                    newData, newData, TRUE)

\* The values the callers of the buffer pass.
BufferData == {<<>>, <<7>>, <<7, 9>>}
BufferFlags == SUBSET {"DYNAMIC", "RENDER_TARGET"}

NextBuffer ==
    \/ \E u \in {"INDEX", "VERTEX"}, f \in BufferFlags, n \in 0..2 :
          BufferInitSize(u, f, n)
    \/ \E u \in {"INDEX", "VERTEX"}, f \in BufferFlags, d \in BufferData :
          BufferInitData(u, d, f)
    \/ \E d \in BufferData : BufferSetData(d)

----------------------------------------------------------------------------
\* Engine::runOnMainThread and Engine::executeAll.

\* The members of the device and of the renderer, which the engine's queue
\* of functions leaves alone.
EngineOnly ==
    UNCHANGED <<running, commandQueue, pcR, commandBuffer, resources, session,
                frameBufferSize, pcD, live, programOK, pushCount, cur, taken,
                execLog, errorLog, drawCalls, contextCalls, accesses, renderer,
                device>>

\* runOnMainThread(func) called by thread t: the function is pushed under
\* executeMutex, then a message is posted to the window; a failed post
\* throws.  The main thread calls it from a function that executeAll runs.
RunOnMainThread(t, empty, posted) ==
    /\ issued < MaxCommands
    /\ t = "main" => engine.pc = "running"
    /\ engine.executeMutex = "none"
    /\ issued' = issued + 1
    /\ LET func == [id |-> Len(engine.enqueued) + 1, empty |-> empty, by |-> t,
                    thrown |-> ~posted]
       IN  engine' = [engine EXCEPT !.executeQueue = Append(@, func),
                                    !.enqueued = Append(@, func)]
    /\ EngineOnly

\* executeAll: std::unique_lock lock{executeMutex}, on entry and on every
\* further turn of the loop.
ExecuteAllLock ==
    /\ engine.pc \in {"idle", "loop"}
    /\ engine.pc = "idle" => Len(engine.returns) < MaxCommands
    /\ engine.executeMutex = "none"
    /\ engine' = [engine EXCEPT !.executeMutex = "main", !.pc = "locked"]
    /\ UNCHANGED issued
    /\ EngineOnly

\* lock.unlock(): who holds executeMutex afterwards.
KeepsLocked(holder) == holder

Unlock(holder) == "none"

\* How executeAll was left, with what it had taken of what had been queued.
Left(e, kind) ==
    [e EXCEPT !.pc = "idle",
              !.returns = Append(@, [kind |-> kind, took |-> Len(e.took),
                                     enqueued |-> Len(e.enqueued),
                                     left |-> Len(e.executeQueue)])]

\* executeAll, under the mutex: break if the queue is empty, which releases
\* the lock; else move the front to func, pop it and unlock.
ExecuteAllTake ==
    /\ engine.pc = "locked"
    /\ engine' =
          IF engine.executeQueue = <<>>
          THEN Left([engine EXCEPT !.executeMutex = "none"], "return")
          ELSE [engine EXCEPT
                  !.func = Head(engine.executeQueue).id,
                  !.took = Append(@, Head(engine.executeQueue)),
                  !.executeQueue = Tail(@),
                  !.executeMutex = Unlock(@),
                  !.pc = IF Head(engine.executeQueue).empty THEN "loop" ELSE "call"]
    /\ UNCHANGED issued
    /\ EngineOnly

\* if (func) func(): the call begins.
ExecuteAllCall ==
    /\ engine.pc = "call"
    /\ engine' = [engine EXCEPT
            !.ran = Append(@, [id |-> engine.func,
                               locked |-> engine.executeMutex = "main"]),
            !.pc = "running"]
    /\ UNCHANGED issued
    /\ EngineOnly

\* The function returns, or throws, which leaves executeAll.
ExecuteAllReturn ==
    /\ engine.pc = "running"
    /\ \E thrown \in BOOLEAN :
          engine' = IF thrown THEN Left([engine EXCEPT !.executeMutex = "none"], "throw")
                    ELSE [engine EXCEPT !.pc = "loop"]
    /\ UNCHANGED issued
    /\ EngineOnly

NextEngine ==
    \/ \E t \in {"main", "other"}, empty \in BOOLEAN, posted \in BOOLEAN :
          RunOnMainThread(t, empty, posted)
    \/ ExecuteAllLock
    \/ ExecuteAllTake
    \/ ExecuteAllCall
    \/ ExecuteAllReturn

----------------------------------------------------------------------------
\* The device after init(): running is true and the render thread has been
\* started; nothing has been submitted.
Init ==
    /\ running = TRUE
    /\ commandQueue = <<>>
    /\ pcR = "loop"
    /\ commandBuffer = <<>>
    /\ resources = <<>>
    /\ session = ProcessLocals
    /\ frameBufferSize = 1
    /\ pcD = "alive"
    /\ live = {}
    /\ programOK = TRUE
    /\ issued = 0
    /\ pushCount = 0
    /\ cur = [id |-> 0, by |-> "none", wf |-> TRUE, pos |-> 0, len |-> 0]
    /\ taken = <<>>
    /\ execLog = <<>>
    /\ errorLog = <<>>
    /\ drawCalls = 0
    /\ contextCalls = <<>>
    /\ accesses = {}
    /\ renderer = NewRenderer({})
    /\ device = NewDevice(TRUE, FALSE, 1)
    /\ engine = NewEngine

Next ==
    \/ \E p \in Producers, b \in ProtocolBuffers(MaxCommands - issued) : Submit(p, b)
    \/ RenderThread
    \/ Destructor

Spec == Init /\ [][Next]_vars

\* The same system with one producer, for the properties that do not depend
\* on who pushed a buffer.  The render thread is scheduled whenever it can
\* take a step, and a join returns once the joined thread has ended.
NextOneProducer ==
    \/ \E b \in ProtocolBuffers(MaxCommands - issued) : Submit("p1", b)
    \/ RenderThread
    \/ Destructor

\* The commands the producer of the resource-table protocol draws from.
ResourceCommands ==
    {InitBufferCommand(h) : h \in Handles}
        \cup {DeleteResourceCommand(h) : h \in Handles}
        \cup {SetBufferDataCommand(h) : h \in Handles}
        \cup {DrawCommand(1, 2, 3, 2, 0), PresentCommand}

ResourceBuffers(n) == SeqsUpTo(ResourceCommands, n)

\* A running device whose producer creates, uses and deletes resources.
NextRes ==
    \/ \E b \in ResourceBuffers(MaxCommands - issued) : Submit("p1", b)
    \/ RenderThread

SpecRes == Init /\ [][NextRes]_vars

\* A device on which the producer has created index buffer 1, vertex
\* buffer 2, shader 3 and render target 4 and nothing else has happened.
SessionResources ==
    <<NewResource("Buffer", 0, 1), NewResource("Buffer", 0, 2),
      NewResource("Shader", 0, 3), NewResource("RenderTarget", 0, 4)>>

InitSession ==
    /\ running = TRUE
    /\ commandQueue = <<>>
    /\ pcR = "loop"
    /\ commandBuffer = <<>>
    /\ resources = SessionResources
    /\ session = ProcessLocals
    /\ frameBufferSize = 1
    /\ pcD = "alive"
    /\ live = DOMAIN SessionResources
    /\ programOK = TRUE
    /\ issued = 0
    /\ pushCount = 0
    /\ cur = [id |-> 0, by |-> "none", wf |-> TRUE, pos |-> 0, len |-> 0]
    /\ taken = <<>>
    /\ execLog = <<>>
    /\ errorLog = <<>>
    /\ drawCalls = 0
    /\ contextCalls = <<>>
    /\ accesses = {}
    /\ renderer = NewRenderer({})
    /\ device = NewDevice(TRUE, FALSE, 1)
    /\ engine = NewEngine

\* The commands that set the session state of a frame.
SessionCommands ==
    {SetPipelineStateCommand(0, 3, "back", "wireframe"),
     SetPipelineStateCommand(0, 0, "front", "solid"),
     SetScissorTestCommand(1), SetScissorTestCommand(0),
     SetRenderTargetCommand(4), SetRenderTargetCommand(0),
     PresentCommand}

SessionBuffers(n) == SeqsUpTo(SessionCommands, n)

NextSession ==
    \/ \E b \in SessionBuffers(MaxCommands - issued) : Submit("p1", b)
    \/ RenderThread

SpecSession == InitSession /\ [][NextSession]_vars

\* The commands that bind a shader, upload its constants and draw.
ShadingCommands ==
    {SetPipelineStateCommand(0, 3, "back", "solid"),
     SetShaderConstantsCommand(<<16>>, <<64>>),
     SetShaderConstantsCommand(<<16>>, <<32>>),
     SetShaderConstantsCommand(<<32>>, <<64>>),
     DrawCommand(1, 2, 3, 2, 0), DrawCommand(1, 2, 6, 4, 1),
     DrawCommand(1, 2, 3, 3, 0),
     PresentCommand}

ShadingBuffers(n) == SeqsUpTo(ShadingCommands, n)

NextShading ==
    \/ \E b \in ShadingBuffers(MaxCommands - issued) : Submit("p1", b)
    \/ RenderThread

SpecShading == InitSession /\ [][NextShading]_vars

\* The same with the render thread scheduled whenever it can take a step.
FairShading == SpecShading /\ WF_vars(RenderThread)

\* A device on which the producer has created render target 1 with two
\* colour textures and a depth texture, render target 2 with one colour
\* texture and no depth texture, index buffer 3 and vertex buffer 4.
FrameResources ==
    <<NewRenderTarget(0, 1, 2, TRUE), NewRenderTarget(0, 2, 1, FALSE),
      NewResource("Buffer", 0, 3), NewResource("Buffer", 0, 4)>>

\* It was initialised with a depth and stencil buffer and four samples, or
\* with neither and one sample, and its backend can refuse every call of a
\* resize.
InitFrame ==
    /\ running = TRUE
    /\ commandQueue = <<>>
    /\ pcR = "loop"
    /\ commandBuffer = <<>>
    /\ resources = FrameResources
    /\ session = ProcessLocals
    /\ frameBufferSize = 1
    /\ pcD = "alive"
    /\ live = DOMAIN FrameResources
    /\ programOK = TRUE
    /\ issued = 0
    /\ pushCount = 0
    /\ cur = [id |-> 0, by |-> "none", wf |-> TRUE, pos |-> 0, len |-> 0]
    /\ taken = <<>>
    /\ execLog = <<>>
    /\ errorLog = <<>>
    /\ drawCalls = 0
    /\ contextCalls = <<>>
    /\ accesses = {}
    /\ renderer = NewRenderer({})
    /\ device \in
          {[NewDevice(TRUE, TRUE, 4) EXCEPT
                !.refused = {"GetBuffer", "CreateRenderTargetView",
                             "CreateTexture2D", "CreateDepthStencilView"}],
           [NewDevice(FALSE, FALSE, 1) EXCEPT
                !.refused = {"GetBuffer", "CreateRenderTargetView"}]}
    /\ engine = NewEngine

\* The commands that clear the target of a frame, with every combination of
\* the three flags, and those that make a render target current.
ClearCommands ==
    {ClearRenderTargetCommand(c, d, t) : c \in BOOLEAN, d \in BOOLEAN, t \in BOOLEAN}
        \cup {SetRenderTargetCommand(1), SetRenderTargetCommand(2)}

\* The producer submits them one command a buffer.
NextClear ==
    \/ \E b \in SeqsUpTo(ClearCommands, 1) : Submit("p1", b)
    \/ RenderThread

SpecClear == InitFrame /\ [][NextClear]_vars

\* The commands of a frame around a resize of the window: a resize to the
\* size the device was created with and one to another size, the default
\* target and render target 1 made current, a draw, a clear and a present.
ResizeCommands ==
    {ResizeCommand(1), ResizeCommand(2),
     SetRenderTargetCommand(0), SetRenderTargetCommand(1),
     DrawCommand(3, 4, 3, 2, 0), ClearRenderTargetCommand(TRUE, TRUE, FALSE),
     PresentCommand}

NextResize ==
    \/ \E b \in SeqsUpTo(ResizeCommands, 1) : Submit("p1", b)
    \/ RenderThread

SpecResize == InitFrame /\ [][NextResize]_vars

\* The commands of a frame that makes render target 4 and shader 3 current,
\* deletes them and goes on without naming them.
LifetimeCommands ==
    {SetRenderTargetCommand(4), SetPipelineStateCommand(0, 3, "back", "solid"),
     DeleteResourceCommand(4), DeleteResourceCommand(3),
     ClearRenderTargetCommand(TRUE, FALSE, FALSE),
     SetShaderConstantsCommand(<<16>>, <<64>>),
     PresentCommand}

NextLifetime ==
    \/ \E b \in SeqsUpTo(LifetimeCommands, MaxCommands - issued) : Submit("p1", b)
    \/ RenderThread

SpecLifetime == InitSession /\ [][NextLifetime]_vars

\* A running device whose producer submits buffers and asks for closures to
\* be run on the render thread.
NextFullscreen ==
    \/ \E b \in SeqsUpTo({SetScissorTestCommand(1), PresentCommand, InvalidCommand},
                         MaxCommands - issued) : Submit("p1", b)
    \/ ExecuteOnRenderThread
    \/ RenderThread
    \/ RExecuteAll

SpecFullscreen == Init /\ [][NextFullscreen]_vars

\* A device whose textures ask for sampler states.
NextSampler == \E desc \in SamplerDescs : GetSamplerState(desc)

SpecSampler == Init /\ [][NextSampler]_vars

\* A renderer to which a scene adds its draws; every resource has been
\* uploaded, or none has.
InitRenderer ==
    /\ running = TRUE
    /\ commandQueue = <<>>
    /\ pcR = "loop"
    /\ commandBuffer = <<>>
    /\ resources = <<>>
    /\ session = ProcessLocals
    /\ frameBufferSize = 1
    /\ pcD = "alive"
    /\ live = {}
    /\ programOK = TRUE
    /\ issued = 0
    /\ pushCount = 0
    /\ cur = [id |-> 0, by |-> "none", wf |-> TRUE, pos |-> 0, len |-> 0]
    /\ taken = <<>>
    /\ execLog = <<>>
    /\ errorLog = <<>>
    /\ drawCalls = 0
    /\ contextCalls = <<>>
    /\ accesses = {}
    /\ renderer \in {NewRenderer({}), NewRenderer(RendererObjects)}
    /\ device = NewDevice(TRUE, FALSE, 1)
    /\ engine = NewEngine

SpecRenderer == InitRenderer /\ [][NextRenderer]_vars

\* A renderer whose resources wait for their upload: a draw is added,
\* screenshots are asked for, the frame is flushed, and presents run.
InitScreenshot == InitRenderer /\ renderer.dirty = RendererObjects

SpecScreenshot == InitScreenshot /\ [][NextScreenshot]_vars

\* A buffer after its constructor, which assigns neither usage nor flags:
\* they hold any value.
InitBufferInterface ==
    /\ running = TRUE
    /\ commandQueue = <<>>
    /\ pcR = "loop"
    /\ commandBuffer = <<>>
    /\ resources = <<>>
    /\ session = ProcessLocals
    /\ frameBufferSize = 1
    /\ pcD = "alive"
    /\ live = {}
    /\ programOK = TRUE
    /\ issued = 0
    /\ pushCount = 0
    /\ cur = [id |-> 0, by |-> "none", wf |-> TRUE, pos |-> 0, len |-> 0]
    /\ taken = <<>>
    /\ execLog = <<>>
    /\ errorLog = <<>>
    /\ drawCalls = 0
    /\ contextCalls = <<>>
    /\ accesses = {}
    /\ \E u \in {"INDEX", "VERTEX"}, f \in BufferFlags :
          renderer = [NewRenderer({}) EXCEPT !.buffer.usage = u, !.buffer.flags = f]
    /\ device = NewDevice(TRUE, FALSE, 1)
    /\ engine = NewEngine

SpecBuffer == InitBufferInterface /\ [][NextBuffer]_vars

\* An engine whose threads queue functions for the main thread, which runs
\* executeAll when the window receives the message.
SpecEngine == Init /\ [][NextEngine]_vars

FairSpec ==
    Init /\ [][NextOneProducer]_vars /\ WF_vars(RenderThread) /\ WF_vars(DJoin)

----------------------------------------------------------------------------
\* Shorthands over the history.

QueueIds == [i \in DOMAIN commandQueue |-> commandQueue[i].id]

Ends == {"present"} \cup ErrorKinds

\* The entries of the log at which a call of process() ended.
EndIndices(log) == {i \in DOMAIN log : log[i].out \in Ends}

----------------------------------------------------------------------------
\* C1: the render thread takes the buffers in exactly the order of the
\* pushes (the ids popped, followed by the ids still queued, are 1, 2, ..
\* up to the number of pushes: none skipped, duplicated or reordered, with
\* pushes from several producers), a buffer being drained holds exactly the
\* commands of its own that have not been executed, and the commands are
\* executed in the order of their buffers' pushes and, within a buffer, in
\* the order of the buffer: no command of a buffer pushed later is executed
\* before a command of a buffer pushed earlier.
C1_FifoTotalOrder ==
    /\ taken \o QueueIds = [i \in 1..pushCount |-> i]
    /\ \A i \in DOMAIN execLog : execLog[i].id \in {taken[k] : k \in DOMAIN taken}
    /\ \A i, j \in DOMAIN execLog :
          i < j => \/ execLog[i].id < execLog[j].id
                   \/ /\ execLog[i].id = execLog[j].id
                      /\ execLog[i].pos < execLog[j].pos
    /\ pcR = "drain" => Len(commandBuffer) = cur.len - cur.pos + 1

\* Two producers have pushed, and a command of the buffer pushed second was
\* executed after the present of the buffer pushed first.
C1_Witness ==
    \E i, j \in DOMAIN execLog :
        /\ i < j
        /\ execLog[i].out = "present"
        /\ execLog[i].id < execLog[j].id
        /\ execLog[i].by \in Producers
        /\ execLog[j].by \in Producers
        /\ execLog[i].by # execLog[j].by

----------------------------------------------------------------------------
\* C2, as claimed: when the render thread has left renderMain no buffer that
\* a producer pushed is left in the queue, and the terminal buffer is taken
\* only after every buffer pushed before it.
C2_NothingDroppedAtShutdown ==
    /\ pcR = "done" => \A i \in DOMAIN commandQueue : commandQueue[i].by = "destructor"
    /\ \A k \in DOMAIN taken : \A n \in 1..(taken[k] - 1) :
            \E m \in 1..(k - 1) : taken[m] = n

\* C2, amended: the render thread leaves renderMain only after running was
\* set to false; the buffers are taken in push order up to the end; once
\* running is false the thread ends at most one more call of process() (at
\* the first present it executes or the first command that throws) and
\* executes nothing after that, so buffers still queued then are dropped.
C2_DrainsUntilFirstEndAfterStop ==
    /\ pcR = "done" => ~running
    /\ \A k \in DOMAIN taken : \A n \in 1..(taken[k] - 1) :
            \E m \in 1..(k - 1) : taken[m] = n
    /\ \A i \in EndIndices(execLog) : ~execLog[i].run => i = Len(execLog)
    /\ pcR = "done" /\ execLog # <<>> => Len(execLog) \in EndIndices(execLog)

\* The render thread has left renderMain while a buffer pushed by a producer
\* is still queued.
C2_Witness ==
    /\ pcR = "done"
    /\ \E i \in DOMAIN commandQueue : commandQueue[i].by \in Producers

----------------------------------------------------------------------------
\* C3: once the destructor has set running to false and pushed the terminal
\* buffer, the render thread eventually leaves renderMain and the join
\* returns, wherever the render thread was at that moment.
C3_ShutdownTerminates ==
    (pcD = "joining") ~> (pcR = "done" /\ pcD = "destroyed")

\* The destructor has returned, after the render thread executed a command
\* that threw and a present once running was false.
C3_Witness ==
    /\ pcD = "destroyed"
    /\ \E i, j \in DOMAIN execLog :
          /\ execLog[i].out \in ErrorKinds
          /\ ~execLog[j].run
          /\ execLog[j].out = "present"

----------------------------------------------------------------------------
\* C4: a present ends the drain of its buffer: no command of the same buffer
\* is executed after it, in that call of process() or in a later one (the
\* rest of the buffer is dropped with process()'s local), and between two
\* calls of process() the render thread holds no commands.
C4_PresentEndsBuffer ==
    /\ \A i, j \in DOMAIN execLog :
          i < j /\ execLog[i].out = "present" => execLog[j].id # execLog[i].id
    /\ pcR \in {"loop", "process", "lock", "waiting"} => commandBuffer = <<>>

\* A present that was not the last command of its buffer has been executed,
\* a command of a later buffer after it, and the thread waits again.
C4_Witness ==
    /\ pcR = "waiting"
    /\ \E i, j \in DOMAIN execLog :
          /\ i < j
          /\ execLog[i].out = "present"
          /\ ~execLog[i].last
          /\ execLog[j].id > execLog[i].id

----------------------------------------------------------------------------
\* C5: every exception thrown by a command is logged by renderMain, no
\* command of the failing buffer is executed after it, the render thread
\* ends only once running is false, and the buffers pushed are still
\* taken in push order, none lost.
C5_ExceptionCaughtAndLoopContinues ==
    /\ errorLog = [k \in 1..Len(errorLog) |->
                     CHOOSE o \in ErrorKinds :
                        \E i \in DOMAIN execLog :
                           /\ execLog[i].out = o
                           /\ Cardinality({m \in 1..i : execLog[m].out \in ErrorKinds}) = k]
    /\ Len(errorLog) = Cardinality({i \in DOMAIN execLog : execLog[i].out \in ErrorKinds})
    /\ \A i, j \in DOMAIN execLog :
          i < j /\ execLog[i].out \in ErrorKinds => execLog[j].id > execLog[i].id
    /\ pcR = "done" => ~running
    /\ pcR # "crashed"
    /\ taken \o QueueIds = [i \in 1..pushCount |-> i]

\* A command threw with commands left in its buffer, and a command of a
\* later buffer was executed afterwards.
C5_Witness ==
    \E i, j \in DOMAIN execLog :
        /\ i < j
        /\ execLog[i].out \in ErrorKinds
        /\ ~execLog[i].last
        /\ execLog[j].id > execLog[i].id

----------------------------------------------------------------------------
----------------------------------------------------------------------------
\* Shorthands over the history of the resource table.

\* Up to entry i of the log nothing of the program was lost: no earlier
\* command threw and no earlier present left commands behind it.
Lossless(i) ==
    \A m \in 1..(i - 1) :
        /\ execLog[m].out \notin ErrorKinds
        /\ execLog[m].out = "present" => execLog[m].last

\* The executions of an init or a deleteResource for handle h that returned.
Effects(h) ==
    {i \in DOMAIN execLog :
        /\ execLog[i].type \in {"initBuffer", "deleteResource"}
        /\ execLog[i].h = h
        /\ execLog[i].out = "ok"}

LastEffect(h) ==
    IF Effects(h) = {} THEN 0
    ELSE CHOOSE i \in Effects(h) : \A m \in Effects(h) : m <= i

\* The command the render thread executes in its next turn of the drain.
Executing(t) ==
    pcR = "drain" /\ commandBuffer # <<>> /\ Head(commandBuffer).type = t

----------------------------------------------------------------------------
----------------------------------------------------------------------------
\* C8: the slot of handle h holds the resource made by the last init for h
\* that was executed, from that execution until a deleteResource for h is
\* executed; it is empty before the first init and after a deleteResource,
\* and an init executed after a deleteResource populates the same slot again.
C8_SlotPopulatedFromInitToDelete ==
    \A h \in Handles :
        LET i == LastEffect(h) IN
            IF i # 0 /\ execLog[i].type = "initBuffer"
            THEN /\ h <= Len(resources)
                 /\ resources[h] = NewResource("Buffer", execLog[i].id, execLog[i].pos)
            ELSE EmptySlot(resources, h)

\* A handle was initialised, deleted and initialised again, and its slot
\* holds the resource made by the second init.
C8_Witness ==
    \E i, j, k \in DOMAIN execLog :
        /\ i < j /\ j < k
        /\ execLog[i].type = "initBuffer" /\ execLog[i].out = "ok"
        /\ execLog[j].type = "deleteResource" /\ execLog[j].h = execLog[i].h
        /\ execLog[k].type = "initBuffer" /\ execLog[k].out = "ok"
        /\ execLog[k].h = execLog[i].h
        /\ ~EmptySlot(resources, execLog[i].h)
        /\ resources[execLog[i].h].obj = <<execLog[k].id, execLog[k].pos>>

----------------------------------------------------------------------------
\* C9: executing an init or a deleteResource for handle h leaves every slot
\* other than that of h with its content, at its index; the slots an init
\* appends below that of h are empty; and no step makes the table shorter.
C9_OnlyOwnSlotChanges ==
    /\ [][Executing("initBuffer") \/ Executing("deleteResource") =>
            LET h == Head(commandBuffer).h IN
                /\ \A k \in 1..Len(resources) :
                        k # h => k <= Len(resources') /\ resources'[k] = resources[k]
                /\ \A k \in (Len(resources) + 1)..Len(resources') :
                        k # h => resources'[k] = NullPtr
                /\ Len(resources') <= IF h > Len(resources) THEN h ELSE Len(resources)]_vars
    /\ [][Len(resources') >= Len(resources)]_vars

\* Both slots are populated, the higher one by an init executed before an
\* init or a deleteResource for the lower handle.
C9_Witness ==
    /\ Len(resources) = 2
    /\ resources[2] # NullPtr
    /\ \E i, j \in DOMAIN execLog :
          /\ i < j
          /\ execLog[i].type = "initBuffer" /\ execLog[i].h = 2
          /\ execLog[i].out = "ok"
          /\ resources[2].obj = <<execLog[i].id, execLog[i].pos>>
          /\ execLog[j].type \in {"initBuffer", "deleteResource"}
          /\ execLog[j].h = 1
          /\ execLog[j].out = "ok"

----------------------------------------------------------------------------
----------------------------------------------------------------------------
\* C11: while the device is running the buffers pushed are eventually all taken
\* by the render thread, and a buffer taken is eventually left (drained, or
\* ended by a present or a failing command); the render thread is blocked
\* in the wait only while the queue is empty, and a buffer is taken only
\* from a queue that holds one.
C11_EveryBufferTakenAndWaitOnlyWhenEmpty ==
    /\ (Len(taken) < pushCount) ~> (~running \/ Len(taken) = pushCount)
    /\ (pcR = "drain") ~> (pcR # "drain")
    /\ [](pcR = "waiting" => commandQueue = <<>>)
    /\ [][taken' # taken => commandQueue # <<>> /\ pcR = "lock"]_vars

\* The device is running, two buffers were pushed and taken, one of them
\* ended by a command that threw, and the render thread waits again on the
\* empty queue.
C11_Witness ==
    /\ running
    /\ pcR = "waiting"
    /\ pushCount >= 2
    /\ Len(taken) = pushCount
    /\ errorLog # <<>>

----------------------------------------------------------------------------
----------------------------------------------------------------------------
\* C13: the command executed next after a present finds the session state
\* of a fresh call of process(): no render target override, no shader bound,
\* fill-mode, scissor-enabled and cull-mode indices 0; and a render thread
\* that waits on the queue after a present holds that fresh state.
C13_SessionNotCarriedAcrossPresent ==
    /\ \A i \in DOMAIN execLog :
          i > 1 /\ execLog[i - 1].out = "present" =>
              /\ execLog[i].seen.currentRenderTarget = 0
              /\ execLog[i].seen.currentShader = 0
              /\ execLog[i].seen.fillModeIndex = 0
              /\ execLog[i].seen.scissorEnableIndex = 0
              /\ execLog[i].seen.cullModeIndex = 0
    /\ pcR = "waiting" /\ execLog # <<>> /\ execLog[Len(execLog)].out = "present"
          => session = ProcessLocals

\* A present was executed in a frame that had bound a shader and selected
\* wireframe fill and back-face culling, and a command was executed after it.
C13_Witness ==
    \E i \in DOMAIN execLog :
        /\ i > 1
        /\ execLog[i - 1].out = "present"
        /\ execLog[i - 1].seen.currentShader # 0
        /\ execLog[i - 1].seen.fillModeIndex = 1
        /\ execLog[i - 1].seen.cullModeIndex = 2

----------------------------------------------------------------------------
\* Shorthands over the history of the session state.

\* The first entry of the call of process() that executed entry i.
FrameStart(i) ==
    LET ends == {m \in EndIndices(execLog) : m < i} IN
        IF ends = {} THEN 1 ELSE 1 + CHOOSE m \in ends : \A n \in ends : n <= m

\* The last command of type t among entries from..i that returned, or 0.
MostRecent(t, from, i) ==
    LET ms == {m \in from..i : execLog[m].type = t /\ execLog[m].out = "ok"} IN
        IF ms = {} THEN 0 ELSE CHOOSE m \in ms : \A n \in ms : n <= m

\* The rasterizer state that the most recent fill mode, scissor test and
\* cull mode among entries from..i ask for.
RequestedState(from, i) ==
    LET p == MostRecent("setPipelineState", from, i)
        t == MostRecent("setScissorTest", from, i)
    IN  [FillMode |-> IF p = 0 THEN "solid" ELSE execLog[p].command.fillMode,
         ScissorEnable |-> IF t = 0 THEN FALSE ELSE execLog[t].command.v # 0,
         CullMode |-> IF p = 0 THEN "none" ELSE execLog[p].command.cullMode]

\* The calls of RSSetState.
Selections == {k \in DOMAIN contextCalls : contextCalls[k].call = "RSSetState"}

----------------------------------------------------------------------------
\* C14, as claimed: every rasterizer state selected by a setPipelineState or
\* a setScissorTest is the one for the most recent fill mode, the most
\* recent cull mode and the most recent scissor-enabled value of the whole
\* command sequence executed so far.
C14_RasterizerStateFollowsMostRecentOfAll ==
    \A k \in Selections :
        RasterizerStates[contextCalls[k].arg[1]]
            = RequestedState(1, contextCalls[k].cmd)

\* C14, amended: every rasterizer state selected by a setPipelineState or a
\* setScissorTest is the one for the most recent fill mode, cull mode and
\* scissor-enabled value issued in the same call of process(), that is since
\* the last present or failed command, in whichever order they were issued;
\* a value not issued since then counts as solid, no culling, scissor off.
C14_RasterizerStateFollowsMostRecentOfFrame ==
    \A k \in Selections :
        RasterizerStates[contextCalls[k].arg[1]]
            = RequestedState(FrameStart(contextCalls[k].cmd), contextCalls[k].cmd)

\* In one call of process() a setScissorTest that enables the test and a
\* setPipelineState with wireframe fill and back-face culling were executed,
\* and the state selected last is wireframe, scissor on, back.
C14_Witness ==
    /\ Selections # {}
    /\ LET k == CHOOSE n \in Selections : \A m \in Selections : m <= n
           i == contextCalls[k].cmd
       IN  /\ RasterizerStates[contextCalls[k].arg[1]]
                 = [FillMode |-> "wireframe", ScissorEnable |-> TRUE, CullMode |-> "back"]
           /\ MostRecent("setPipelineState", FrameStart(i), i) # 0
           /\ MostRecent("setScissorTest", FrameStart(i), i) # 0

----------------------------------------------------------------------------
\* The calls made by the command of entry i of the log.
CallsOf(i) == {k \in DOMAIN contextCalls : contextCalls[k].cmd = i}

\* In the call of process() that executed entry i, no setPipelineState with
\* a shader has been executed before it.
NoShaderBoundAt(i) ==
    LET p == MostRecent("setPipelineState", FrameStart(i), i) IN
        p = 0 \/ execLog[p].command.h = 0

----------------------------------------------------------------------------
\* C15: a setShaderConstants executed while no shader is current (no
\* setPipelineState with a shader was executed in the same call of
\* process()) throws and makes no call on the device context: nothing is
\* uploaded.
C15_NoShaderNoUpload ==
    \A i \in DOMAIN execLog :
        execLog[i].type = "setShaderConstants" =>
            /\ execLog[i].seen.currentShader = 0 <=> NoShaderBoundAt(i)
            /\ NoShaderBoundAt(i) =>
                  /\ execLog[i].out = "protocol"
                  /\ CallsOf(i) = {}

\* A setShaderConstants with constants of the right sizes failed without an
\* upload because the shader was bound before the last present only.
C15_Witness ==
    \E i, j \in DOMAIN execLog :
        /\ i < j
        /\ execLog[i].type = "setPipelineState" /\ execLog[i].out = "ok"
        /\ execLog[j].command = SetShaderConstantsCommand(<<16>>, <<64>>)
        /\ NoShaderBoundAt(j)
        /\ execLog[j].out = "protocol"
        /\ errorLog # <<>>

----------------------------------------------------------------------------
\* C16: a setShaderConstants executed with a shader bound and a constant,
\* fragment or vertex, whose size differs from the size the shader declares
\* for its slot fails with a protocol error, and no upload was made for that
\* command.
C16_SizesValidatedBeforeAnyUpload ==
    \A i \in DOMAIN execLog :
        LET c == execLog[i].command
            shader == execLog[i].seen.currentShader
        IN  /\ execLog[i].type = "setShaderConstants"
            /\ shader # 0
            /\ \/ InvalidConstantSize(c.fragmentShaderConstants,
                                       FragmentShaderConstantLocations(shader))
               \/ InvalidConstantSize(c.vertexShaderConstants,
                                       VertexShaderConstantLocations(shader))
            => /\ execLog[i].out = "protocol"
               /\ \A k \in CallsOf(i) : contextCalls[k].call # "uploadBuffer"

----------------------------------------------------------------------------
\* The calls named name made by the command of entry i of the log.
CallsNamed(i, name) == {k \in CallsOf(i) : contextCalls[k].call = name}

\* The draws that found both their buffers.
Draws == {i \in DOMAIN execLog : execLog[i].type = "draw" /\ ~execLog[i].empty}

----------------------------------------------------------------------------
\* C17: a draw with index size 2 sets the index buffer with the 16-bit
\* format and one with index size 4 with the 32-bit format; a draw with
\* any other index size throws, sets no index buffer and issues no draw
\* call; the draw calls counted are those of the draws with a valid size.
C17_IndexSizeSelectsFormatOrFails ==
    /\ \A i \in Draws :
          LET size == execLog[i].command.v
              formats == {contextCalls[k].arg[2] : k \in CallsNamed(i, "IASetIndexBuffer")}
          IN  /\ size = 2 => execLog[i].out = "ok" /\ formats = {16}
              /\ size = 4 => execLog[i].out = "ok" /\ formats = {32}
              /\ size \notin {2, 4} =>
                    /\ execLog[i].out = "protocol"
                    /\ formats = {}
                    /\ CallsNamed(i, "DrawIndexed") = {}
    /\ drawCalls = Cardinality({i \in Draws : execLog[i].command.v \in {2, 4}})

\* A draw with index size 3 has failed after a draw with index size 4 had
\* issued its draw call.
C17_Witness ==
    \E i, j \in Draws :
        /\ i < j
        /\ execLog[i].command.v = 4 /\ execLog[i].out = "ok"
        /\ execLog[j].command.v = 3 /\ execLog[j].out = "protocol"
        /\ drawCalls = 1

----------------------------------------------------------------------------
\* C18: every draw that returned has issued exactly one DrawIndexed, with
\* its index count and its start index, the DrawIndexed calls are those of
\* such draws, in their order, and once a present has ended a call of
\* process() the render thread gets back to the wait on the queue or to the
\* next buffer.
C18_OneDrawCallPerDraw ==
    /\ [](\A i \in DOMAIN execLog :
            execLog[i].type = "draw" /\ execLog[i].out = "ok" =>
                /\ Cardinality(CallsNamed(i, "DrawIndexed")) = 1
                /\ \A k \in CallsNamed(i, "DrawIndexed") :
                      contextCalls[k].arg
                          = <<execLog[i].command.indexCount, execLog[i].command.startIndex>>)
    /\ [](\A k \in DOMAIN contextCalls :
            contextCalls[k].call = "DrawIndexed" =>
                /\ execLog[contextCalls[k].cmd].type = "draw"
                /\ execLog[contextCalls[k].cmd].out = "ok")
    /\ (pcR = "loop" /\ execLog # <<>> /\ execLog[Len(execLog)].out = "present")
          ~> (pcR \in {"waiting", "drain"})

\* The frame setPipelineState, draw of 3 indices of size 2, present was
\* executed: one draw call, of 3 indices, no error, and the render thread
\* waits on the empty queue.
C18_Witness ==
    /\ pcR = "waiting"
    /\ errorLog = <<>>
    /\ Len(execLog) = 3
    /\ execLog[1].type = "setPipelineState"
    /\ execLog[2].command = DrawCommand(1, 2, 3, 2, 0)
    /\ execLog[3].out = "present"
    /\ drawCalls = 1
    /\ \E k \in DOMAIN contextCalls :
          contextCalls[k].call = "DrawIndexed" /\ contextCalls[k].arg = <<3, 0>>

----------------------------------------------------------------------------
\* C19: addDrawCommand returns true, appends one draw to the active draw
\* queue and schedules the draw's dirty resources only when it is given a
\* shader and a mesh buffer that has an index buffer and a vertex buffer
\* with the shader's vertex attributes; in every other case it returns
\* false and leaves the active draw queue and the update set as they were.
C19_DrawAcceptedOnlyWhenComplete ==
    [][renderer' # renderer =>
        LET call == renderer'.call[1]
            mesh == MeshBuffers[call.meshBuffer]
            complete ==
                /\ call.shader # "none"
                /\ call.meshBuffer # "none"
                /\ mesh.indexBuffer # "none"
                /\ mesh.vertexBuffer # "none"
                /\ VertexBufferAttributes[mesh.vertexBuffer] = ShaderAttributes[call.shader]
        IN  /\ renderer'.result[1] <=> complete
            /\ complete =>
                  /\ Len(renderer'.activeDrawQueue) = Len(renderer.activeDrawQueue) + 1
                  /\ renderer.updateSet \subseteq renderer'.updateSet
            /\ ~complete =>
                  /\ renderer'.activeDrawQueue = renderer.activeDrawQueue
                  /\ renderer'.updateSet = renderer.updateSet]_vars

\* A draw whose mesh buffer has no index buffer was refused after a draw had
\* been accepted and its resources scheduled for upload.
C19_Witness ==
    /\ renderer.call # <<>>
    /\ renderer.call[1].shader # "none"
    /\ renderer.call[1].meshBuffer = "meshNoIndex"
    /\ renderer.result[1] = FALSE
    /\ Len(renderer.activeDrawQueue) = 1
    /\ renderer.updateSet # {}

----------------------------------------------------------------------------
\* The render target that the commands executed before entry i in the same
\* call of process() have bound; 0 is the default backbuffer.
BoundBefore(i) ==
    LET p == MostRecent("setRenderTarget", FrameStart(i), i - 1) IN
        IF p = 0 THEN 0 ELSE execLog[p].command.h

----------------------------------------------------------------------------
----------------------------------------------------------------------------
\* The three axes after entry i, a setPipelineState or a setScissorTest that
\* returned: the axis the command sets, and the session's other axes.
AxesAfter(i) ==
    LET e == execLog[i] IN
        IF e.type = "setScissorTest"
        THEN [e.seen EXCEPT !.scissorEnableIndex = IF e.command.v # 0 THEN 1 ELSE 0]
        ELSE [e.seen EXCEPT !.fillModeIndex = FillModes[e.command.fillMode],
                            !.cullModeIndex = CullModes[e.command.cullMode]]

\* Every value the three axes can take together.
AxisStates ==
    {[ProcessLocals EXCEPT !.fillModeIndex = f, !.scissorEnableIndex = t,
                           !.cullModeIndex = c] :
        f \in 0..1, t \in 0..1, c \in 0..2}

----------------------------------------------------------------------------
\* C28, as claimed: the rasterizer-state index selected by setPipelineState
\* and by setScissorTest is fillModeIndex * 2 + scissorEnableIndex * 3 +
\* cullModeIndex, computed from the three axes as they are after the command.
C28_IndexIsFillTimesScissorModes ==
    \A k \in Selections :
        LET a == AxesAfter(contextCalls[k].cmd) IN
            contextCalls[k].arg[1]
                = a.fillModeIndex * 2 + a.scissorEnableIndex * 3 + a.cullModeIndex

\* C28, amended: the rasterizer-state index selected by setPipelineState and
\* by setScissorTest is fillModeIndex * (2 * 3) + scissorEnableIndex * 3 +
\* cullModeIndex (2 scissor modes, 3 cull modes), computed from the three
\* axes as they are after the command, each time one of the two executes.
C28_IndexIsFillTimesScissorAndCullModes ==
    \A k \in Selections :
        LET a == AxesAfter(contextCalls[k].cmd) IN
            contextCalls[k].arg[1]
                = a.fillModeIndex * (2 * 3) + a.scissorEnableIndex * 3 + a.cullModeIndex

\* A setScissorTest that enables the test executed after a setPipelineState
\* with wireframe fill and back-face culling: index 1 * 6 + 1 * 3 + 2.
C28_Witness ==
    \E k \in Selections :
        /\ execLog[contextCalls[k].cmd].type = "setScissorTest"
        /\ AxesAfter(contextCalls[k].cmd).fillModeIndex = 1
        /\ AxesAfter(contextCalls[k].cmd).cullModeIndex = 2
        /\ contextCalls[k].arg[1] = 11

----------------------------------------------------------------------------
\* C29: every rasterizer state rebound by a setScissorTest or a
\* setPipelineState that returned is one of the 12 states built at init, and
\* it is the one built for the fill mode, scissor-enabled value and cull
\* mode current after the command; two different combinations of the three
\* axes never select the same state.
C29_SelectedStateIsTheOneBuiltForTheAxes ==
    /\ \A k \in Selections :
          LET a == AxesAfter(contextCalls[k].cmd)
              n == contextCalls[k].arg[1]
          IN  /\ n \in DOMAIN RasterizerStates
              /\ RasterizerStates[n].FillMode
                    = (CHOOSE m \in DOMAIN FillModes : FillModes[m] = a.fillModeIndex)
              /\ RasterizerStates[n].ScissorEnable = (a.scissorEnableIndex = 1)
              /\ RasterizerStates[n].CullMode
                    = (CHOOSE m \in DOMAIN CullModes : CullModes[m] = a.cullModeIndex)
    /\ Cardinality(DOMAIN RasterizerStates) = 12
    /\ \A s, t \in AxisStates :
          s # t => /\ RasterizerStateIndex(s) # RasterizerStateIndex(t)
                   /\ RasterizerStates[RasterizerStateIndex(s)]
                         # RasterizerStates[RasterizerStateIndex(t)]

\* A setPipelineState with solid fill and front-face culling executed while
\* the scissor test was enabled, and rebound the state built for it.
C29_Witness ==
    \E k \in Selections :
        /\ execLog[contextCalls[k].cmd].type = "setPipelineState"
        /\ execLog[contextCalls[k].cmd].seen.scissorEnableIndex = 1
        /\ RasterizerStates[contextCalls[k].arg[1]]
              = [FillMode |-> "solid", ScissorEnable |-> TRUE, CullMode |-> "front"]

----------------------------------------------------------------------------
\* C21: a clearRenderTarget that returns clears the colour of every colour
\* view of its target if clearColorBuffer is set and of none otherwise, and,
\* where the target has a depth/stencil attachment, clears depth iff
\* clearDepthBuffer is set and stencil iff clearStencilBuffer is set,
\* whatever the other two flags are; the target is the render target
\* current when the command began, or the back buffer when none is.
C21_ClearsGatedIndependently ==
    \A i \in DOMAIN execLog :
        execLog[i].type = "clearRenderTarget" /\ execLog[i].out = "ok" =>
            LET c == execLog[i].command
                t == execLog[i].seen.currentRenderTarget
                views == IF t # 0 THEN RenderTargetViews(resources[t])
                         ELSE <<device.renderTargetView>>
                hasDepth == IF t # 0 THEN resources[t].depth ELSE device.depth
                Cleared(f) ==
                    \E k \in CallsNamed(i, "ClearDepthStencilView") :
                        f \in contextCalls[k].arg[2]
            IN  /\ {contextCalls[k].arg[1] :
                        k \in CallsNamed(i, "ClearRenderTargetView")}
                      = (IF c.clearColorBuffer
                         THEN {views[n] : n \in DOMAIN views} ELSE {})
                /\ hasDepth =>
                      /\ Cleared("D3D11_CLEAR_DEPTH") <=> c.clearDepthBuffer
                      /\ Cleared("D3D11_CLEAR_STENCIL") <=> c.clearStencilBuffer

----------------------------------------------------------------------------
\* The render thread executes a command of type t in this step.
Executes(t) ==
    /\ pcR = "drain"
    /\ commandBuffer # <<>>
    /\ Head(commandBuffer).type = t
    /\ execLog' # execLog

----------------------------------------------------------------------------
\* C22: a resize command whose size equals the current frame-buffer size
\* returns without an error and changes nothing: the back buffer, its view,
\* the depth/stencil texture and view, the recorded size and every other
\* member of the device are as before, and no call is made on the backend.
C22_ResizeToSameSizeIsNoOp ==
    [][Executes("resize") /\ Head(commandBuffer).v = frameBufferSize =>
          /\ device' = device
          /\ frameBufferSize' = frameBufferSize
          /\ contextCalls' = contextCalls
          /\ resources' = resources
          /\ session' = session
          /\ execLog'[Len(execLog')].out = "ok"]_vars

\* A resize to another size reallocated the back buffer, and a later resize
\* to that same size returned without a call on the backend.
C22_Witness ==
    \E i, j \in DOMAIN execLog :
        /\ i < j
        /\ execLog[i].type = "resize" /\ execLog[i].out = "ok"
        /\ CallsNamed(i, "ResizeBuffers") # {}
        /\ execLog[j].type = "resize" /\ execLog[j].out = "ok"
        /\ execLog[j].command.v = execLog[i].command.v
        /\ CallsOf(j) = {}
        /\ \A k \in i..j : execLog[k].type = "resize" => execLog[k].command.v = frameBufferSize

----------------------------------------------------------------------------
\* C23: a resize to a different size that succeeds replaces the back buffer
\* and its view and, if depth is enabled, the depth/stencil texture and
\* view; the new depth/stencil texture has the format of the one created at
\* init (with stencil iff stencil was enabled) and its sample count; the
\* resource table, the sampler cache, the settings of the device and the
\* session state are unchanged.
C23_ResizeReallocatesAndPreservesTheRest ==
    [][Executes("resize") /\ frameBufferSize' # frameBufferSize =>
          /\ device'.backBuffer # device.backBuffer
          /\ device'.renderTargetView # device.renderTargetView
          /\ device.depth =>
                /\ device'.depthStencilView # device.depthStencilView
                /\ device'.depthStencilTexture.made # device.depthStencilTexture.made
                /\ device'.depthStencilTexture.Format = DepthStencilFormat(device.stencil)
                /\ device'.depthStencilTexture.SampleCount = device.sampleCount
          /\ ~device.depth =>
                /\ device'.depthStencilView = NullView
                /\ device'.depthStencilTexture = device.depthStencilTexture
          /\ resources' = resources
          /\ session' = session
          /\ device'.samplerStates = device.samplerStates
          /\ device'.depth = device.depth
          /\ device'.stencil = device.stencil
          /\ device'.sampleCount = device.sampleCount]_vars

----------------------------------------------------------------------------
\* C24: once a resize to a different size has succeeded, a draw executed
\* while the default target is bound to the context renders to the current
\* back-buffer view and depth/stencil view of the device, and a
\* clearRenderTarget executed while no render target is current clears the
\* current back-buffer view, whether or not a setRenderTarget was executed
\* after the resize.
C24_DefaultTargetIsTheNewBackBuffer ==
    [][LET bound == device.omRenderTargets
           DrawsToDefault ==
               /\ Executes("draw")
               /\ bound.renderTargetViews # <<>>
               /\ bound.renderTargetViews[1].owner = "device"
           ClearsDefault ==
               /\ Executes("clearRenderTarget")
               /\ session.currentRenderTarget = 0
       IN  /\ DrawsToDefault =>
                /\ bound.renderTargetViews = <<device.renderTargetView>>
                /\ bound.depthStencilView = device.depthStencilView
           /\ ClearsDefault =>
                \A k \in DOMAIN contextCalls' \ DOMAIN contextCalls :
                    contextCalls'[k].call = "ClearRenderTargetView"
                        => contextCalls'[k].arg = <<device.renderTargetView>>]_vars

----------------------------------------------------------------------------
\* C25: getSamplerState returns the same sampler for equal descriptions
\* (filter, anisotropy and the three address modes) and the sampler it
\* returns is the cache's entry for the description; the backend creates at
\* most one sampler per description, and none on a hit; an entry of the
\* cache is never removed or replaced.
C25_OneSamplerPerDescription ==
    /\ [](LET Returns == {k \in DOMAIN contextCalls :
                             contextCalls[k].call = "getSamplerState"}
              Created == {k \in DOMAIN contextCalls :
                             /\ contextCalls[k].call = "CreateSamplerState"
                             /\ contextCalls[k].arg[2] = "S_OK"}
          IN  /\ \A j, k \in Returns :
                    contextCalls[j].arg[1] = contextCalls[k].arg[1]
                        => contextCalls[j].arg[2] = contextCalls[k].arg[2]
              /\ \A k \in Returns :
                    [desc |-> contextCalls[k].arg[1],
                     sampler |-> contextCalls[k].arg[2]] \in device.samplerStates
              /\ \A j, k \in Created :
                    contextCalls[j].arg[1] = contextCalls[k].arg[1] => j = k
              /\ Cardinality(Created) = Cardinality(device.samplerStates))
    /\ [][device.samplerStates \subseteq device'.samplerStates]_vars

\* A description with anisotropy 4 was asked for twice and one with
\* anisotropy 1 once: the backend created two samplers, and the two calls
\* with the equal descriptions returned the same one.
C25_Witness ==
    \E j, k \in DOMAIN contextCalls :
        /\ j < k
        /\ contextCalls[j].call = "getSamplerState"
        /\ contextCalls[k].call = "getSamplerState"
        /\ contextCalls[j].arg = contextCalls[k].arg
        /\ contextCalls[j].arg[1].maxAnisotropy = 4
        /\ Cardinality(device.samplerStates) = 2

----------------------------------------------------------------------------
\* C26, as claimed: every screenshot path enqueued before a present began
\* has been handled when that present returns; the paths are taken in
\* request order, each exactly once; and when a present returns true the
\* screenshot queue is empty.
C26_PendingScreenshotsHandledByNextPresent ==
    /\ \A n \in DOMAIN renderer.presents :
          /\ renderer.presents[n].handled >= renderer.presents[n].before
          /\ renderer.presents[n].ok => renderer.presents[n].left = 0
    /\ \A i \in DOMAIN renderer.handled :
          renderer.handled[i].filename = renderer.requests[i].filename

\* C26, amended: the render side takes the pending paths in request order
\* and hands each to generateScreenshot exactly once; a path is never
\* dropped: the paths handled, the one being handled and the ones still
\* queued are, in this order, the paths requested; a present that returns
\* true has handled every path enqueued before it began, and the paths it
\* leaves in the queue were enqueued while it ran; a present that returns
\* false may leave earlier paths queued for a later present.
C26_PendingScreenshotsTakenInOrderNeverLost ==
    /\ [i \in DOMAIN renderer.handled |-> renderer.handled[i].filename]
          \o (IF renderer.pc = "generate" THEN <<renderer.filename>> ELSE <<>>)
          \o renderer.screenshotQueue
        = [i \in DOMAIN renderer.requests |-> renderer.requests[i].filename]
    /\ \A n \in DOMAIN renderer.presents :
          renderer.presents[n].ok =>
              renderer.presents[n].handled >= renderer.presents[n].before

\* Two paths were enqueued and a present that began after both returned
\* true having handled them; a third path was enqueued while it ran and is
\* still queued.
C26_Witness ==
    \E n \in DOMAIN renderer.presents :
        /\ renderer.presents[n].ok
        /\ renderer.presents[n].before = 2
        /\ renderer.presents[n].handled = 2
        /\ renderer.presents[n].left = 1
        /\ renderer.requests[1].filename # renderer.requests[2].filename

----------------------------------------------------------------------------
\* C27: when writing a screenshot fails, the caller that requested it got
\* a failure as the result of its request, and the present in which the
\* write failed still returns true having handled the other paths that
\* were pending when it began.
C27_ScreenshotFailureReportedAndNotFatal ==
    /\ \A i \in DOMAIN renderer.handled :
          ~renderer.handled[i].ok => ~renderer.requests[i].result
    /\ \A n \in DOMAIN renderer.presents :
          /\ renderer.presents[n].failed # "screenshot"
          /\ renderer.presents[n].failed # "upload" =>
                renderer.presents[n].handled >= renderer.presents[n].before

----------------------------------------------------------------------------
\* C30: after deleteResource(h) has executed, no later command of the same
\* frame calls through currentRenderTarget or currentShader while the pointer
\* still denotes the resource that slot h held when it was deleted.
C30_NoUseOfDeletedCurrentResource ==
    \A j \in DOMAIN execLog : \A i \in DOMAIN execLog :
        LET d == execLog[j]
            u == execLog[i]
        IN  (/\ j < i
             /\ d.id = u.id /\ d.by = u.by
             /\ d.type = "deleteResource" /\ d.out = "ok")
            => /\ ~(/\ UsesRenderTarget(u.command)
                    /\ d.seen.currentRenderTarget = d.command.h
                    /\ u.seen.currentRenderTarget = d.command.h
                    /\ u.seen.renderTargetObject = d.seen.renderTargetObject)
               /\ ~(/\ UsesShader(u.command)
                    /\ d.seen.currentShader = d.command.h
                    /\ u.seen.currentShader = d.command.h
                    /\ u.seen.shaderObject = d.seen.shaderObject)

----------------------------------------------------------------------------
\* C31: whenever a command is about to be dispatched, the views bound to the
\* context are those of the session's current render target, the device's
\* own views when none is current.
C31_CurrentTargetIsTheBoundTarget ==
    (pcR = "drain" /\ commandBuffer # <<>>)
        => device.omRenderTargets =
              IF session.currentRenderTarget = 0
              THEN [renderTargetViews |-> <<device.renderTargetView>>,
                    depthStencilView |-> device.depthStencilView]
              ELSE [renderTargetViews |->
                        RenderTargetViews(session.renderTargetObject),
                    depthStencilView |->
                        DepthStencilViewOf(session.renderTargetObject)]

----------------------------------------------------------------------------
\* C32: a deleteResource or init command that executes indexes the resource
\* table within its bounds, the table being the one the command has resized
\* for an init.
C32_TableIndexedWithinBounds ==
    [][LET c == Head(commandBuffer) IN
        /\ Executes("deleteResource") => ~OutOfBounds(resources, c.h)
        /\ Executes("initBuffer")
              => ~OutOfBounds(ResizeTable(resources, c.h), c.h)]_vars

----------------------------------------------------------------------------
\* C33: an init command whose constructor throws leaves the resource table
\* exactly as it was: neither resized nor changed in any slot.
C33_FailedInitLeavesTableUnchanged ==
    [][(Executes("initBuffer") /\ execLog'[Len(execLog')].out \in ErrorKinds)
          => resources' = resources]_vars

\* The constructor of initBuffer(2) has thrown on a table too short for
\* handle 2, and on a table whose slot 2 was populated.
C33_Witness ==
    /\ \E i \in DOMAIN execLog :
          /\ execLog[i].type = "initBuffer" /\ execLog[i].out \in ErrorKinds
          /\ execLog[i].h > Len(resources)
    /\ \E i \in DOMAIN execLog :
          /\ execLog[i].type = "initBuffer" /\ execLog[i].out \in ErrorKinds
          /\ ~EmptySlot(resources, execLog[i].h)

----------------------------------------------------------------------------
\* C34: a resize to a different size that fails, at whichever backend call,
\* keeps the recorded frame-buffer size, and a later resize command asking
\* for the same size calls ResizeBuffers again.
C34_FailedResizeKeepsSizeAndIsRetried ==
    [][Executes("resize")
        => LET c == Head(commandBuffer)
               out == execLog'[Len(execLog')].out
           IN  /\ out \in ErrorKinds => frameBufferSize' = frameBufferSize
               /\ c.v # frameBufferSize
                     => \E i \in DOMAIN contextCalls' :
                           /\ i > Len(contextCalls)
                           /\ contextCalls'[i].call = "ResizeBuffers"]_vars

\* A resize failed at a call after ResizeBuffers, and a later resize command
\* asking for the same size was executed.
C34_Witness ==
    \E i \in DOMAIN execLog : \E j \in DOMAIN execLog :
        /\ i < j
        /\ execLog[i].type = "resize" /\ execLog[i].out \in ErrorKinds
        /\ \E k \in DOMAIN contextCalls :
              contextCalls[k].cmd = i /\ contextCalls[k].call = "CreateRenderTargetView"
        /\ execLog[j].type = "resize"
        /\ execLog[j].command.v = execLog[i].command.v
        /\ \E k \in DOMAIN contextCalls :
              contextCalls[k].cmd = j /\ contextCalls[k].call = "ResizeBuffers"

----------------------------------------------------------------------------
\* C35: a closure handed to executeOnRenderThread is run only at entry to
\* process(), never between two commands of a frame, and one queued while
\* the render thread was blocked on the empty queue is not run before a
\* present of a later buffer has executed.
C35_ClosureRunsAtEntryAfterPresent ==
    \A n \in DOMAIN device.executed :
        LET e == device.executed[n] IN
            /\ \/ e.at = 0
               \/ execLog[e.at].out \in {"present"} \cup ErrorKinds
            /\ e.blocked
                  => \E k \in (e.after + 1)..e.at : execLog[k].type = "present"

\* C35, amended: the same, but a closure queued while the render thread was
\* blocked on the empty queue is not run before a command of a later buffer
\* has executed a present or thrown.
C35_ClosureRunsAtEntryAfterPresentOrThrow ==
    \A n \in DOMAIN device.executed :
        LET e == device.executed[n] IN
            /\ \/ e.at = 0
               \/ execLog[e.at].out \in {"present"} \cup ErrorKinds
            /\ e.blocked
                  => \E k \in (e.after + 1)..e.at :
                        execLog[k].out \in {"present"} \cup ErrorKinds

\* A closure queued while the render thread was blocked has been run after
\* a later command threw, no present having executed.
C35_Witness ==
    \E n \in DOMAIN device.executed :
        LET e == device.executed[n] IN
            /\ e.blocked
            /\ e.at > e.after
            /\ execLog[e.at].out \in ErrorKinds
            /\ \A k \in DOMAIN execLog : execLog[k].type # "present"

----------------------------------------------------------------------------
\* C36: refillDrawQueue and activeDrawQueueFinished are never both true,
\* however the steps of flushDrawCommands and of present interleave.
C36_RefillAndFinishedExclusive ==
    ~(renderer.refillDrawQueue /\ renderer.activeDrawQueueFinished)

----------------------------------------------------------------------------
\* C37: every access to updateSet is made holding updateMutex.
C37_UpdateSetAccessedUnderMutex ==
    \A a \in accesses : a.var = "updateSet" => a.locked

----------------------------------------------------------------------------
\* C38: when present has returned, every resource that was scheduled for
\* upload and has not been uploaded is still in updateSet.
C38_FailedUploadKeepsSchedule ==
    renderer.pc = "idle"
        => (renderer.scheduled \cap renderer.dirty) \subseteq renderer.updateSet

----------------------------------------------------------------------------
\* C39: setData on a buffer whose flags lack DYNAMIC returns false and
\* leaves data, usage and flags as they were; on a buffer whose flags have
\* DYNAMIC it returns true and data is exactly the data passed, usage and
\* flags staying as they were.
C39_SetDataOnlyOnDynamicBuffers ==
    [][LET b == renderer.buffer
           a == renderer'.buffer
           call == a.calls[Len(a.calls)]
       IN  (Len(a.calls) > Len(b.calls) /\ call.name = "setData")
           => /\ a.usage = b.usage
              /\ a.flags = b.flags
              /\ call.result = ("DYNAMIC" \in b.flags)
              /\ a.data = IF "DYNAMIC" \in b.flags THEN call.arg ELSE b.data]_vars

\* A setData that would have changed the data was refused, and after a
\* later init a setData was accepted and the data is the data it passed.
C39_Witness ==
    \E j, k, l \in DOMAIN renderer.buffer.calls :
        LET calls == renderer.buffer.calls IN
            /\ j < k /\ k < l
            /\ calls[j].name = "setData" /\ ~calls[j].result
            /\ calls[j].arg # <<>>
            /\ calls[k].name = "init"
            /\ calls[l].name = "setData" /\ calls[l].result
            /\ calls[l].arg # calls[k].arg
            /\ renderer.buffer.data = calls[l].arg

----------------------------------------------------------------------------
\* C40: the functions taken from the queue followed by those still queued
\* are the functions enqueued, in enqueue order; the functions called are
\* the non-empty functions taken, each once and in that order; a function is
\* called, and runs, while nobody holds executeMutex on the main thread's
\* behalf; and when executeAll returns the queue was empty and every function
\* enqueued until then, also while it ran, has been taken.
C40_ExecuteAllRunsEveryFunctionOnceInOrder ==
    LET NotEmpty(f) == ~f.empty
        called == IF engine.pc = "call"
                  THEN SubSeq(engine.took, 1, Len(engine.took) - 1)
                  ELSE engine.took
    IN  /\ engine.took \o engine.executeQueue = engine.enqueued
        /\ [i \in DOMAIN engine.ran |-> engine.ran[i].id]
              = [i \in DOMAIN SelectSeq(called, NotEmpty) |->
                    SelectSeq(called, NotEmpty)[i].id]
        /\ \A i \in DOMAIN engine.ran : ~engine.ran[i].locked
        /\ engine.pc = "running" => engine.executeMutex = "none"
        /\ \A n \in DOMAIN engine.returns :
              engine.returns[n].kind = "return"
                  => /\ engine.returns[n].left = 0
                     /\ engine.returns[n].took = engine.returns[n].enqueued

\* One call of executeAll has run a function queued by another thread and a
\* function that this one queued while it ran, and has returned.
C40_Witness ==
    /\ Len(engine.returns) = 1
    /\ engine.returns[1].kind = "return"
    /\ Len(engine.ran) = 2
    /\ engine.enqueued[1].by = "other"
    /\ engine.enqueued[2].by = "main"

============================================================================
